---- MODULE Spec2Model ----
(***************************************************************************)
(* Model of bwestley/soundboard: the remote input client and its manager   *)
(* (src/src/input.rs), the audio controls and the output devices           *)
(* (src/src/audio.rs).                                                     *)
(***************************************************************************)
EXTENDS Integers, Sequences, FiniteSets, TLC

(***************************************************************************)
(* Bounds of the model.                                                    *)
(***************************************************************************)
\* number of connect() calls the driver makes (sessions are 1..MaxSessions)
MaxSessions == 1
\* number of chunks the peers put on the wire, over all sessions
MaxChunks == 2
\* number of reads that fail with an I/O error, over all sessions
MaxReadErrors == 1
\* number of AudioControls instances constructed
MaxControls == 2
\* number of sources the streams mix at a time, over all devices
MaxSources == 1

(***************************************************************************)
(* Wire codec.  A frame is the postcard serialization of an                *)
(* InputEventWrapper, COBS encoded, followed by the delimiter 0x00.        *)
(***************************************************************************)
Delimiter == 0

\* bytes of the API key sent in the handshake, without the trailing NUL
ApiKey == <<97>>

\* postcard varint: 7 bits per byte, least significant group first,
\* bit 7 set on every byte but the last
RECURSIVE VarintEncode(_)
VarintEncode(n) ==
    IF n < 128 THEN <<n>>
    ELSE <<(n % 128) + 128>> \o VarintEncode(n \div 128)

\* postcard folds the sign of a signed integer into bit 0
ZigZag(v) == IF v >= 0 THEN 2 * v ELSE (-2 * v) - 1

UnZigZag(n) == IF n % 2 = 0 THEN n \div 2 ELSE -((n + 1) \div 2)

\* postcard serialization of the four fields in declaration order; the
\* SystemTime is the pair (secs_since_epoch, nanos_since_epoch)
Serialize(r) ==
    VarintEncode(r.timestamp[1]) \o VarintEncode(r.timestamp[2])
      \o VarintEncode(r.event_type) \o VarintEncode(r.code)
      \o VarintEncode(ZigZag(r.value))

\* index of the first zero byte of s at or after position i, 0 if none
RECURSIVE FirstZero(_, _)
FirstZero(s, i) ==
    IF i > Len(s) THEN 0
    ELSE IF s[i] = 0 THEN i
    ELSE FirstZero(s, i + 1)

\* COBS encoding of a payload (the sender's side), without the delimiter
RECURSIVE CobsEncode(_)
CobsEncode(p) ==
    LET z == FirstZero(p, 1) IN
    IF z = 0 THEN <<Len(p) + 1>> \o p
    ELSE <<z>> \o SubSeq(p, 1, z - 1) \o CobsEncode(SubSeq(p, z + 1, Len(p)))

\* the element of a one-element set
Only(S) == CHOOSE x \in S : TRUE

CobsErr == [ok |-> FALSE, bytes |-> <<>>]

\* the index after the block that starts with the code byte at si
CobsNext(si, code) == IF code = 0 THEN si + 1 ELSE si + code

\* cobs::decode_in_place: source_index is si (0-based), the decoded bytes
\* are out; a code that points past the end of the buffer is an error, the
\* end of the buffer without a delimiter is not
RECURSIVE CobsDecodeInPlace(_, _, _)
CobsDecodeInPlace(buf, si, out) ==
    IF si >= Len(buf) THEN [ok |-> TRUE, bytes |-> out]
    ELSE Only({IF si + code > Len(buf) /\ code # 1 THEN CobsErr
               ELSE Only({CobsDecodeInPlace(buf, next, more)
                          : next \in {CobsNext(si, code)},
                            more \in {out \o SubSeq(buf, si + 2, si + code)
                                        \o (IF code # 255
                                               /\ CobsNext(si, code) < Len(buf)
                                            THEN <<0>> ELSE <<>>)}})
               : code \in {buf[si + 1]}})

VarintErr == [ok |-> FALSE, val |-> 0, pos |-> 0]

\* postcard try_take_varint_uN: at most maxBytes bytes, the last of which
\* is at most maxLast; pos is the number of bytes already taken
RECURSIVE TakeVarint(_, _, _, _, _, _)
TakeVarint(bytes, pos, i, acc, maxBytes, maxLast) ==
    IF i >= maxBytes THEN VarintErr
    ELSE IF pos >= Len(bytes) THEN VarintErr
    ELSE LET val == bytes[pos + 1]
             out == acc + (val % 128) * (128 ^ i)
         IN IF val < 128
            THEN IF i = maxBytes - 1 /\ val > maxLast THEN VarintErr
                 ELSE [ok |-> TRUE, val |-> out, pos |-> pos + 1]
            ELSE TakeVarint(bytes, pos + 1, i + 1, out, maxBytes, maxLast)

TakeU64(bytes, pos) == TakeVarint(bytes, pos, 0, 0, 10, 1)
TakeU32(bytes, pos) == TakeVarint(bytes, pos, 0, 0, 5, 15)
TakeU16(bytes, pos) == TakeVarint(bytes, pos, 0, 0, 3, 3)

NoRecord == [ok |-> FALSE]

FromBytesValue(bytes, secs, nanos, ty, code) ==
    Only({IF ~value.ok THEN NoRecord
          ELSE [ok |-> TRUE,
                event |-> [timestamp |-> <<secs.val, nanos.val>>,
                           event_type |-> ty.val,
                           code |-> code.val,
                           value |-> UnZigZag(value.val)]]
          : value \in {TakeU32(bytes, code.pos)}})

FromBytesCode(bytes, secs, nanos, ty) ==
    Only({IF ~code.ok THEN NoRecord
          ELSE FromBytesValue(bytes, secs, nanos, ty, code)
          : code \in {TakeU16(bytes, ty.pos)}})

FromBytesType(bytes, secs, nanos) ==
    Only({IF ~ty.ok THEN NoRecord
          ELSE FromBytesCode(bytes, secs, nanos, ty)
          : ty \in {TakeU16(bytes, nanos.pos)}})

FromBytesNanos(bytes, secs) ==
    Only({IF ~nanos.ok THEN NoRecord
          ELSE FromBytesType(bytes, secs, nanos)
          : nanos \in {TakeU32(bytes, secs.pos)}})

\* postcard::from_bytes::<InputEventWrapper>: the five varints in order
\* (seconds and nanoseconds of the timestamp, event_type, code, value),
\* the first that fails fails the record; bytes after the last field are
\* ignored
FromBytes(bytes) ==
    Only({IF ~secs.ok THEN NoRecord
          ELSE FromBytesNanos(bytes, secs)
          : secs \in {TakeU64(bytes, 0)}})

\* postcard::from_bytes_cobs: COBS decoding in place, then from_bytes
FromBytesCobs(buf) ==
    Only({IF ~d.ok THEN NoRecord ELSE FromBytes(d.bytes)
          : d \in {CobsDecodeInPlace(buf, 0, <<>>)}})

\* the records of the valid delimited frames of a byte stream, in order
\* (an undelimited tail is not a frame)
RECURSIVE ValidRecords(_)
ValidRecords(bytes) ==
    LET z == FirstZero(bytes, 1) IN
    IF z = 0 THEN <<>>
    ELSE LET r == FromBytesCobs(SubSeq(bytes, 1, z))
             rest == ValidRecords(SubSeq(bytes, z + 1, Len(bytes)))
         IN IF r.ok THEN <<r.event>> \o rest ELSE rest

\* every delimited frame of the byte stream decodes
RECURSIVE AllFramesValid(_)
AllFramesValid(bytes) ==
    LET z == FirstZero(bytes, 1) IN
    IF z = 0 THEN TRUE
    ELSE FromBytesCobs(SubSeq(bytes, 1, z)).ok
           /\ AllFramesValid(SubSeq(bytes, z + 1, Len(bytes)))

\* the bytes after the last delimiter
RECURSIVE UndelimitedTail(_)
UndelimitedTail(bytes) ==
    LET z == FirstZero(bytes, 1) IN
    IF z = 0 THEN bytes ELSE UndelimitedTail(SubSeq(bytes, z + 1, Len(bytes)))

(***************************************************************************)
(* What the peer puts on the wire.                                         *)
(***************************************************************************)
KeyPress == [timestamp |-> <<1, 2>>, event_type |-> 1, code |-> 30, value |-> 1]
KeyRelease == [timestamp |-> <<1, 3>>, event_type |-> 1, code |-> 272, value |-> 0]

Records == {KeyPress, KeyRelease}

Frame(r) == CobsEncode(Serialize(r)) \o <<Delimiter>>

\* whole frames, a complete payload whose delimiter is still to come, the
\* delimiter alone (an empty frame, or the end of the frame the bytes
\* before it began), and the first bytes of a payload
Chunks ==
    {Frame(r) : r \in Records}
      \cup {CobsEncode(Serialize(KeyPress)),
            <<Delimiter>>,
            SubSeq(CobsEncode(Serialize(KeyPress)), 1, 3)}

(***************************************************************************)
(* State.                                                                  *)
(***************************************************************************)
\* the sessions: the MaxSessions ones of connect(), and one more for the
\* specification in which the driver connects once more
Sessions == 1 .. MaxSessions + 1

VARIABLES
    \* RemoteInputClientManager; 0 is None, s is the handle / receiver of
    \* the session started by the s-th connect()
    remote_input_thread,
    event_receiver,
    \* number of connect() calls so far
    sessions,
    \* the worker thread of each session
    wpc,
    \* RemoteInputClient.event_buffer
    event_buffer,
    \* the mpsc channel of each session: the records sent and not received
    chan,
    \* the TCP connection of each session: bytes the peer has written,
    \* how many of them the BufReader has consumed, and whether the peer
    \* has closed
    wire,
    rpos,
    peerClosed,
    \* what TcpStream::connect and stream.write returned
    tcpResult,
    writeResult,
    \* the last line the worker printed before it returned
    exitMessage,
    \* history: records returned by process_event, records returned by
    \* events(), reads that failed, chunks sent, and the last manager call
    \* that changed the bookkeeping
    decoded,
    delivered,
    readErrors,
    chunksSent,
    lastCall

inputVars == <<remote_input_thread, event_receiver, sessions, wpc,
               event_buffer, chan, wire, rpos, peerClosed, tcpResult,
               writeResult, exitMessage, decoded, delivered, readErrors,
               chunksSent, lastCall>>

\* AudioControls: instance i is the i-th one constructed
VARIABLES
    \* number of instances constructed so far
    constructed,
    \* AudioControls.playing, .stopped (atomics) and .volume (behind a mutex)
    playing,
    stopped,
    volume,
    \* where each thread is: "idle", or inside stop() on an instance,
    \* between the two stores
    tpc,
    \* history: a stop() call on the instance has returned; the value the
    \* last get_volume() returned
    stopReturned,
    gotVolume

audioVars == <<constructed, playing, stopped, volume, tpc, stopReturned,
               gotVolume>>

\* OutputDevice and the sources its stream mixes
VARIABLES
    \* the OutputDevice of each name: enabled, volume, muted, and whether
    \* stream and stream_handle are Some
    output_devices,
    \* the sources handed to play_raw that their stream still holds, by
    \* slot: the device and the AudioControls the closure captured, and
    \* the state of the Stoppable, Pausable and Amplify wrappers
    sources,
    \* history: whether play_sound was called, what the last call returned
    \* and whether it called File::open; whether the last enable() of each
    \* device that reached OutputStream::try_from_device got an error
    lastPlaySound,
    acquireFailed

deviceVars == <<output_devices, sources, lastPlaySound, acquireFailed>>

\* the record process_event deserialized last, what as_event made of it
\* for the diagnostic line and what process_event returned
VARIABLES
    event_wrapper,
    classified,
    returned

classifyVars == <<event_wrapper, classified, returned>>

\* the periodic_access closures the audio threads run, load by load and
\* lock by lock: for each closure where its thread is in it, the device
\* and the AudioControls it captured and the Stoppable and Pausable it
\* drives; and the holder of each volume mutex
VARIABLES
    closures,
    volume_lock,
    device_volume_lock

closureVars == <<closures, volume_lock, device_volume_lock>>

\* Soundboard, the driver
VARIABLES
    \* the keys of config.outputs and the sounds of config.sounds, each
    \* sound named by a number
    config_outputs,
    config_sounds,
    \* the AudioControls instance at each index of audio_controls
    audio_controls,
    \* the keys of the output_devices map
    device_keys,
    \* whether Soundboard::new has run and whether update() has drawn a
    \* frame, the fields playing, enabled and modified, and the panic that
    \* ended the program, if any
    soundboard,
    \* history: the sound each AudioControls instance was constructed for
    made_for

driverVars == <<config_outputs, config_sounds, audio_controls, device_keys,
                soundboard, made_for>>

\* the variables of the parts below that the input client, the controls
\* and the devices never touch
auxVars == <<classifyVars, closureVars, driverVars>>

NoEvent == [ok |-> FALSE]

\* results of stream.write other than the number of bytes written
NotWritten == -2
WriteErr == -1

\* RemoteInputClientManager::new and no thread spawned yet
InitInput ==
    /\ remote_input_thread = 0
    /\ event_receiver = 0
    /\ sessions = 0
    /\ wpc = [s \in Sessions |-> "unspawned"]
    /\ event_buffer = [s \in Sessions |-> <<>>]
    /\ chan = [s \in Sessions |-> <<>>]
    /\ wire = [s \in Sessions |-> <<>>]
    /\ rpos = [s \in Sessions |-> 0]
    /\ peerClosed = [s \in Sessions |-> FALSE]
    /\ tcpResult = [s \in Sessions |-> "none"]
    /\ writeResult = [s \in Sessions |-> NotWritten]
    /\ exitMessage = [s \in Sessions |-> "none"]
    /\ decoded = [s \in Sessions |-> <<>>]
    /\ delivered = [s \in Sessions |-> <<>>]
    /\ readErrors = [s \in Sessions |-> 0]
    /\ chunksSent = 0
    /\ lastCall = "new"

(***************************************************************************)
(* RemoteInputClientManager.                                               *)
(***************************************************************************)
\* dropping a Receiver discards what its channel still buffers
DropReceiver(c) ==
    [s \in Sessions |-> IF s = event_receiver THEN <<>> ELSE c[s]]

\* what events() returns in the current state
EventsResult ==
    IF event_receiver = 0 THEN <<>> ELSE chan[event_receiver]

\* a connect() whose new receiver takes over what the old one buffered
ConnectUpTo_CarryOver(n) ==
    /\ sessions < n
    /\ LET s == sessions + 1 IN
         /\ sessions' = s
         /\ event_receiver' = s
         /\ remote_input_thread' = s
         /\ wpc' = [wpc EXCEPT ![s] = "connecting"]
         /\ chan' = [DropReceiver(chan) EXCEPT ![s] = EventsResult]
    /\ lastCall' = "connect"
    /\ UNCHANGED <<event_buffer, wire, rpos, peerClosed, tcpResult,
                   writeResult, exitMessage, decoded, delivered, readErrors,
                   chunksSent>>
    /\ UNCHANGED <<audioVars, deviceVars, auxVars>>

\* connect(), as long as the driver has made fewer than n calls of it: a
\* fresh channel whose receiver replaces the stored one, and a new thread
\* whose handle replaces the stored one
ConnectUpTo(n) ==
    /\ sessions < n
    /\ LET s == sessions + 1 IN
         /\ sessions' = s
         /\ event_receiver' = s
         /\ remote_input_thread' = s
         /\ wpc' = [wpc EXCEPT ![s] = "connecting"]
         /\ chan' = DropReceiver(chan)
    /\ lastCall' = "connect"
    /\ UNCHANGED <<event_buffer, wire, rpos, peerClosed, tcpResult,
                   writeResult, exitMessage, decoded, delivered, readErrors,
                   chunksSent>>
    /\ UNCHANGED <<audioVars, deviceVars, auxVars>>

\* connect()
Connect == ConnectUpTo(MaxSessions)

\* disconnect() that drops the receiver but keeps the thread handle
Disconnect_KeepThread ==
    /\ event_receiver' = 0
    /\ chan' = DropReceiver(chan)
    /\ lastCall' = "disconnect"
    /\ UNCHANGED <<remote_input_thread, sessions, wpc, event_buffer, wire,
                   rpos, peerClosed, tcpResult, writeResult, exitMessage,
                   decoded, delivered, readErrors, chunksSent>>
    /\ UNCHANGED <<audioVars, deviceVars, auxVars>>

\* disconnect() that forgets the thread handle but keeps the receiver
Disconnect_KeepReceiver ==
    /\ remote_input_thread' = 0
    /\ lastCall' = "disconnect"
    /\ UNCHANGED <<event_receiver, chan, sessions, wpc, event_buffer,
                   wire, rpos, peerClosed, tcpResult, writeResult,
                   exitMessage, decoded, delivered, readErrors, chunksSent>>
    /\ UNCHANGED <<audioVars, deviceVars, auxVars>>

\* disconnect(): both options become None; the thread is not joined
Disconnect ==
    /\ event_receiver' = 0
    /\ remote_input_thread' = 0
    /\ chan' = DropReceiver(chan)
    /\ lastCall' = "disconnect"
    /\ UNCHANGED <<sessions, wpc, event_buffer, wire, rpos,
                   peerClosed, tcpResult, writeResult, exitMessage, decoded,
                   delivered, readErrors, chunksSent>>
    /\ UNCHANGED <<audioVars, deviceVars, auxVars>>

\* JoinHandle::is_finished of the thread of session s
IsFinished(s) == wpc[s] = "done"

\* connected() that only looks at the receiver
Connected_ReceiverOnly == event_receiver # 0

\* connected()
Connected ==
    /\ event_receiver # 0
    /\ remote_input_thread # 0
    /\ ~IsFinished(remote_input_thread)

\* events() that reads the buffered records without removing them
Events_NoDrain ==
    /\ delivered' = [s \in Sessions |->
                       IF s = event_receiver
                       THEN delivered[s] \o EventsResult ELSE delivered[s]]
    /\ UNCHANGED <<chan, remote_input_thread, event_receiver, sessions, wpc,
                   event_buffer, wire, rpos, peerClosed, tcpResult,
                   writeResult, exitMessage, decoded, readErrors, chunksSent,
                   lastCall>>
    /\ UNCHANGED <<audioVars, deviceVars, auxVars>>

\* events(): try_iter().collect() takes everything buffered, in order
Events ==
    /\ delivered' = [s \in Sessions |->
                       IF s = event_receiver
                       THEN delivered[s] \o EventsResult ELSE delivered[s]]
    /\ chan' = DropReceiver(chan)
    /\ UNCHANGED <<remote_input_thread, event_receiver, sessions, wpc,
                   event_buffer, wire, rpos, peerClosed, tcpResult,
                   writeResult, exitMessage, decoded, readErrors, chunksSent,
                   lastCall>>
    /\ UNCHANGED <<audioVars, deviceVars, auxVars>>

(***************************************************************************)
(* The peer of each connection.                                            *)
(***************************************************************************)
Established(s) == wpc[s] = "reading"

PeerSend(s, c) ==
    /\ Established(s)
    /\ ~peerClosed[s]
    /\ chunksSent < MaxChunks
    /\ wire' = [wire EXCEPT ![s] = @ \o c]
    /\ chunksSent' = chunksSent + 1
    /\ UNCHANGED <<remote_input_thread, event_receiver, sessions, wpc,
                   event_buffer, chan, rpos, peerClosed, tcpResult,
                   writeResult, exitMessage, decoded, delivered, readErrors,
                   lastCall>>
    /\ UNCHANGED <<audioVars, deviceVars, auxVars>>

PeerClose(s) ==
    /\ Established(s)
    /\ ~peerClosed[s]
    /\ peerClosed' = [peerClosed EXCEPT ![s] = TRUE]
    /\ UNCHANGED <<remote_input_thread, event_receiver, sessions, wpc,
                   event_buffer, chan, wire, rpos, tcpResult,
                   writeResult, exitMessage, decoded, delivered, readErrors,
                   chunksSent, lastCall>>
    /\ UNCHANGED <<audioVars, deviceVars, auxVars>>

(***************************************************************************)
(* RemoteInputClient and the worker thread that runs it.                   *)
(***************************************************************************)
\* a worker that prints msg and stays in its loop
WorkerExit_Retry(s, msg) ==
    /\ exitMessage' = [exitMessage EXCEPT ![s] = msg]
    /\ UNCHANGED wpc

\* the worker returns after printing msg
WorkerExit(s, msg) ==
    /\ wpc' = [wpc EXCEPT ![s] = "done"]
    /\ exitMessage' = [exitMessage EXCEPT ![s] = msg]

\* the API key followed by NUL
HandshakeBytes == ApiKey \o <<0>>

\* a handshake that takes Ok(0) for a success
HandshakeFails_ErrOnly(n) == n = WriteErr

\* the match on the result of stream.write: Ok(0) and Err give up
HandshakeFails(n) == n = WriteErr \/ n = 0

\* the worker's call of RemoteInputClient::connect: TcpStream::connect,
\* then one write of the API key, which may accept any number of the
\* bytes; None makes the worker print and return
ClientConnect(s) ==
    /\ wpc[s] = "connecting"
    /\ \E r \in {"ok", "err"} :
       \E n \in {WriteErr} \cup (0 .. Len(HandshakeBytes)) :
         /\ tcpResult' = [tcpResult EXCEPT ![s] = r]
         /\ writeResult' = [writeResult EXCEPT ![s] =
                              IF r = "ok" THEN n ELSE NotWritten]
         /\ IF r = "err" \/ HandshakeFails(n)
            THEN WorkerExit(s, "Unable to connect.")
            ELSE /\ wpc' = [wpc EXCEPT ![s] = "reading"]
                 /\ UNCHANGED exitMessage
    /\ UNCHANGED <<remote_input_thread, event_receiver, sessions,
                   event_buffer, chan, wire, rpos, peerClosed,
                   decoded, delivered, readErrors, chunksSent,
                   lastCall>>
    /\ UNCHANGED <<audioVars, deviceVars, auxVars>>

\* the bytes of the connection the BufReader has not consumed
Available(s) == SubSeq(wire[s], rpos[s] + 1, Len(wire[s]))

\* read_until returns at the delimiter or at the end of the stream
ReadReady(s) == FirstZero(Available(s), 1) # 0 \/ peerClosed[s]

\* the bytes read_until(0x00) appends: up to and including the delimiter,
\* or everything left when the peer closed before one came
ReadUntil(s) ==
    LET z == FirstZero(Available(s), 1) IN
    IF z # 0 THEN SubSeq(Available(s), 1, z) ELSE Available(s)

\* what process_event returns for the outcome of its read: None for
\* Ok(0); otherwise (Ok(n) and Err alike) the deserialized buffer, None
\* when it does not deserialize
ProcessEventReturn(readOk, buf) ==
    IF readOk /\ Len(buf) = 0 THEN NoEvent ELSE FromBytesCobs(buf)

\* an iteration that ignores the result of event_sender.send(event)
WorkerIteration_IgnoreSend(s, readOk, buf) ==
    /\ event_buffer' = [event_buffer EXCEPT ![s] = buf]
    /\ rpos' = [rpos EXCEPT ![s] = @ + Len(buf)]
    /\ LET r == ProcessEventReturn(readOk, buf) IN
         IF r.ok
         THEN /\ decoded' = [decoded EXCEPT ![s] = Append(@, r.event)]
              /\ chan' = [chan EXCEPT ![s] =
                            IF event_receiver = s
                            THEN Append(@, r.event) ELSE @]
              /\ UNCHANGED <<wpc, exitMessage>>
         ELSE /\ WorkerExit(s, "Server disconnected.")
              /\ UNCHANGED <<decoded, chan>>

\* one iteration of the worker's loop: process_event on what the read
\* gave, then event_sender.send(event), which fails when the receiver of
\* this channel is gone; None ends the loop
WorkerIteration(s, readOk, buf) ==
    /\ event_buffer' = [event_buffer EXCEPT ![s] = buf]
    /\ rpos' = [rpos EXCEPT ![s] = @ + Len(buf)]
    /\ LET r == ProcessEventReturn(readOk, buf) IN
         IF r.ok
         THEN /\ decoded' = [decoded EXCEPT ![s] = Append(@, r.event)]
              /\ IF event_receiver = s
                 THEN /\ chan' = [chan EXCEPT ![s] = Append(@, r.event)]
                      /\ UNCHANGED <<wpc, exitMessage>>
                 ELSE /\ WorkerExit(s, "Local channel disconnected.")
                      /\ UNCHANGED chan
         ELSE /\ WorkerExit(s, "Server disconnected.")
              /\ UNCHANGED <<decoded, chan>>

\* an iteration whose read_until returns Ok
ProcessEvent(s) ==
    /\ wpc[s] = "reading"
    /\ ReadReady(s)
    /\ WorkerIteration(s, TRUE, ReadUntil(s))
    /\ UNCHANGED <<remote_input_thread, event_receiver, sessions, wire,
                   peerClosed, tcpResult, writeResult, delivered, readErrors,
                   chunksSent, lastCall>>
    /\ UNCHANGED <<audioVars, deviceVars, auxVars>>

RECURSIVE SumUpTo(_, _)
SumUpTo(f, n) == IF n = 0 THEN 0 ELSE f[n] + SumUpTo(f, n - 1)

\* an iteration whose read_until returns Err, at its first fill_buf or
\* at the one after it consumed what had arrived: the consumed bytes, none
\* of them a delimiter, are in the buffer
ProcessEventReadError(s) ==
    /\ wpc[s] = "reading"
    /\ SumUpTo(readErrors, MaxSessions) < MaxReadErrors
    /\ readErrors' = [readErrors EXCEPT ![s] = @ + 1]
    /\ LET z == FirstZero(Available(s), 1)
           most == IF z # 0 THEN z - 1 ELSE Len(Available(s))
       IN \E k \in {0, most} :
            WorkerIteration(s, FALSE, SubSeq(Available(s), 1, k))
    /\ UNCHANGED <<remote_input_thread, event_receiver, sessions, wire,
                   peerClosed, tcpResult, writeResult, delivered, chunksSent,
                   lastCall>>
    /\ UNCHANGED <<audioVars, deviceVars, auxVars>>

WorkerStep(s) == ClientConnect(s) \/ ProcessEvent(s)

(***************************************************************************)
(* AudioControls.  Instance i is the i-th one constructed; the callers are *)
(* threads that share the instances.                                       *)
(***************************************************************************)
Controls == 1 .. MaxControls

Threads == {"driver", "callback"}

\* the f32 volumes the callers pass
Volumes == {0, 1, 2}

Idle == [at |-> "idle", on |-> 0]

InitAudio ==
    /\ constructed = 0
    /\ playing = [i \in Controls |-> FALSE]
    /\ stopped = [i \in Controls |-> FALSE]
    /\ volume = [i \in Controls |-> 0]
    /\ tpc = [t \in Threads |-> Idle]
    /\ stopReturned = [i \in Controls |-> FALSE]
    /\ gotVolume = 0

Constructed(i) == i <= constructed

\* AudioControls::new(playing, stopped, volume)
New(p, st, v) ==
    /\ constructed < MaxControls
    /\ constructed' = constructed + 1
    /\ playing' = [playing EXCEPT ![constructed + 1] = p]
    /\ stopped' = [stopped EXCEPT ![constructed + 1] = st]
    /\ volume' = [volume EXCEPT ![constructed + 1] = v]
    /\ UNCHANGED <<tpc, stopReturned, gotVolume, inputVars, deviceVars, auxVars>>

\* AudioControls::default()
Default ==
    /\ constructed < MaxControls
    /\ constructed' = constructed + 1
    /\ playing' = [playing EXCEPT ![constructed + 1] = TRUE]
    /\ stopped' = [stopped EXCEPT ![constructed + 1] = FALSE]
    /\ volume' = [volume EXCEPT ![constructed + 1] = 0]
    /\ UNCHANGED <<tpc, stopReturned, gotVolume, inputVars, deviceVars, auxVars>>

\* a play() that revives a stopped instance
Play_Revive(t, i) ==
    /\ tpc[t] = Idle
    /\ Constructed(i)
    /\ playing' = [playing EXCEPT ![i] = TRUE]
    /\ stopped' = [stopped EXCEPT ![i] = FALSE]
    /\ UNCHANGED <<constructed, volume, tpc, stopReturned, gotVolume,
                   inputVars, deviceVars, auxVars>>

\* play()
Play(t, i) ==
    /\ tpc[t] = Idle
    /\ Constructed(i)
    /\ playing' = [playing EXCEPT ![i] = TRUE]
    /\ UNCHANGED <<constructed, stopped, volume, tpc, stopReturned,
                   gotVolume, inputVars, deviceVars, auxVars>>

\* pause()
Pause(t, i) ==
    /\ tpc[t] = Idle
    /\ Constructed(i)
    /\ playing' = [playing EXCEPT ![i] = FALSE]
    /\ UNCHANGED <<constructed, stopped, volume, tpc, stopReturned,
                   gotVolume, inputVars, deviceVars, auxVars>>

\* stop(), first store: playing = false
StopPlaying(t, i) ==
    /\ tpc[t] = Idle
    /\ Constructed(i)
    /\ playing' = [playing EXCEPT ![i] = FALSE]
    /\ tpc' = [tpc EXCEPT ![t] = [at |-> "stop", on |-> i]]
    /\ UNCHANGED <<constructed, stopped, volume, stopReturned, gotVolume,
                   inputVars, deviceVars, auxVars>>

\* stop(), second store: stopped = true, and the call returns
StopStopped(t) ==
    /\ tpc[t].at = "stop"
    /\ stopped' = [stopped EXCEPT ![tpc[t].on] = TRUE]
    /\ stopReturned' = [stopReturned EXCEPT ![tpc[t].on] = TRUE]
    /\ tpc' = [tpc EXCEPT ![t] = Idle]
    /\ UNCHANGED <<constructed, playing, volume, gotVolume, inputVars,
                   deviceVars, auxVars>>

\* set_playing(playing)
SetPlaying(t, i, p) ==
    /\ tpc[t] = Idle
    /\ Constructed(i)
    /\ playing' = [playing EXCEPT ![i] = p]
    /\ UNCHANGED <<constructed, stopped, volume, tpc, stopReturned,
                   gotVolume, inputVars, deviceVars, auxVars>>

\* a set_volume that clamps to the range of the sliders
SetVolume_Clamped(t, i, v) ==
    /\ tpc[t] = Idle
    /\ Constructed(i)
    /\ volume' = [volume EXCEPT ![i] = IF v > 1 THEN 1 ELSE v]
    /\ UNCHANGED <<constructed, playing, stopped, tpc, stopReturned,
                   gotVolume, inputVars, deviceVars, auxVars>>

\* set_volume(volume)
SetVolume(t, i, v) ==
    /\ tpc[t] = Idle
    /\ Constructed(i)
    /\ volume' = [volume EXCEPT ![i] = v]
    /\ UNCHANGED <<constructed, playing, stopped, tpc, stopReturned,
                   gotVolume, inputVars, deviceVars, auxVars>>

\* get_volume()
GetVolume(t, i) ==
    /\ tpc[t] = Idle
    /\ Constructed(i)
    /\ gotVolume' = volume[i]
    /\ UNCHANGED <<constructed, playing, stopped, volume, tpc, stopReturned,
                   inputVars, deviceVars, auxVars>>

(***************************************************************************)
(* OutputDevice.  The stream of an enabled device mixes the sources that   *)
(* play_sound handed to it; the audio thread of the stream runs the        *)
(* periodic_access closure of each source and then pulls its samples.      *)
(***************************************************************************)
\* the devices the host reports, by name
OutputDevices == {"A", "B"}

\* the f32 volumes, in dB, the driver passes to OutputDevice::set_volume
DeviceVolumes == {0, 1}

\* the slots of the mixers
Slots == 1 .. MaxSources

\* 10_f32.powf(db / 20.0), in thousandths
Gain(db) ==
    CASE db = 0 -> 1000
      [] db = 1 -> 1122
      [] db = 2 -> 1259
      [] db = 3 -> 1413
      [] db = 4 -> 1585
      [] db = 5 -> 1778

\* a free slot
NoSource == [at |-> "none"]

\* OutputDevice::new
InitDevice ==
    /\ output_devices =
         [d \in OutputDevices |->
            [enabled |-> FALSE, volume |-> 0, muted |-> FALSE,
             stream |-> FALSE, stream_handle |-> FALSE]]
    /\ sources = [k \in Slots |-> NoSource]
    /\ lastPlaySound = [called |-> FALSE, returned |-> FALSE,
                        opened |-> FALSE]
    /\ acquireFailed = [d \in OutputDevices |-> FALSE]

\* the source in slot k is mixed by the stream of device d
On(k, d) == sources[k].at # "none" /\ sources[k].device = d

\* dropping the OutputStream of device d drops the sources it mixes
DropStream(d) ==
    [k \in Slots |-> IF On(k, d) THEN NoSource ELSE sources[k]]

\* an enable() that sets enabled although the stream was not acquired
Enable_ErrEnabled(d, acquired) ==
    /\ IF output_devices[d].enabled
       THEN UNCHANGED <<output_devices, sources, acquireFailed>>
       ELSE /\ acquireFailed' = [acquireFailed EXCEPT ![d] = ~acquired]
            /\ IF acquired
               THEN /\ output_devices' =
                         [output_devices EXCEPT ![d].stream = TRUE,
                                                ![d].stream_handle = TRUE,
                                                ![d].enabled = TRUE]
                    /\ sources' = DropStream(d)
               ELSE /\ output_devices' =
                         [output_devices EXCEPT ![d].enabled = TRUE]
                    /\ UNCHANGED sources
    /\ UNCHANGED <<lastPlaySound, inputVars, audioVars, auxVars>>

\* an enable() that acquires a stream whether or not it has one
Enable_Again(d, acquired) ==
    /\ IF acquired
       THEN /\ output_devices' =
                 [output_devices EXCEPT ![d].stream = TRUE,
                                        ![d].stream_handle = TRUE,
                                        ![d].enabled = TRUE]
            /\ sources' = DropStream(d)
       ELSE /\ output_devices' = [output_devices EXCEPT ![d].enabled = FALSE]
            /\ UNCHANGED sources
    /\ acquireFailed' = [acquireFailed EXCEPT ![d] = ~acquired]
    /\ UNCHANGED <<lastPlaySound, inputVars, audioVars, auxVars>>

\* enable(): nothing when enabled; otherwise
\* OutputStream::try_from_device, whose stream and handle are stored (the
\* assignment drops what the field held) or whose error is printed
Enable(d, acquired) ==
    /\ IF output_devices[d].enabled
       THEN UNCHANGED <<output_devices, sources, acquireFailed>>
       ELSE /\ acquireFailed' = [acquireFailed EXCEPT ![d] = ~acquired]
            /\ IF acquired
               THEN /\ output_devices' =
                         [output_devices EXCEPT ![d].stream = TRUE,
                                                ![d].stream_handle = TRUE,
                                                ![d].enabled = TRUE]
                    /\ sources' = DropStream(d)
               ELSE /\ output_devices' =
                         [output_devices EXCEPT ![d].enabled = FALSE]
                    /\ UNCHANGED sources
    /\ UNCHANGED <<lastPlaySound, inputVars, audioVars, auxVars>>

\* a disable() that keeps the stream
Disable_KeepStream(d) ==
    /\ output_devices' = [output_devices EXCEPT ![d].stream_handle = FALSE,
                                                ![d].enabled = FALSE]
    /\ UNCHANGED <<sources, lastPlaySound, acquireFailed, inputVars,
                   audioVars, auxVars>>

\* disable(): nothing when not enabled; otherwise the handle and the
\* stream are taken and dropped
Disable(d) ==
    /\ IF ~output_devices[d].enabled
       THEN UNCHANGED <<output_devices, sources>>
       ELSE /\ output_devices' =
                 [output_devices EXCEPT ![d].stream_handle = FALSE,
                                        ![d].stream = FALSE,
                                        ![d].enabled = FALSE]
            /\ sources' = DropStream(d)
    /\ UNCHANGED <<lastPlaySound, acquireFailed, inputVars, audioVars, auxVars>>

\* a play_sound that never returns early on self.enabled
NotEnabled_Never(d) == FALSE

\* the early return of play_sound: !self.enabled
NotEnabled(d) == ~output_devices[d].enabled

\* a play_raw that reports Ok whatever the mixer said
PlayRaw_AlwaysOk(d, accepted) == TRUE

\* OutputStreamHandle::play_raw: Ok when the mixer of the stream is there
\* and takes the source
PlayRaw(d, accepted) == accepted /\ output_devices[d].stream

\* the lowest free slot, 0 when there is none
FreeSlot ==
    IF \E k \in Slots : sources[k].at = "none"
    THEN CHOOSE k \in Slots :
           /\ sources[k].at = "none"
           /\ \A j \in Slots : sources[j].at = "none" => k <= j
    ELSE 0

\* the source play_sound builds: the decoder wrapped in stoppable(),
\* pausable(false), amplify(1.0) and periodic_access, whose closure holds
\* the controls and the volume and muted cells of the device; the closure
\* has not run yet
NewSource(d, c) ==
    [at |-> "pending", device |-> d, controls |-> c,
     stopped |-> FALSE, paused |-> FALSE, factor |-> Gain(0)]

\* the outcomes of File::open, Decoder::new and the mixer in one call of
\* play_sound: the decoder is given an opened file only, the mixer a
\* decoded source only
Outcomes ==
    {o \in BOOLEAN \X BOOLEAN \X BOOLEAN : (o[2] => o[1]) /\ (o[3] => o[2])}

\* play_sound(filename, controls) on device d, with the outcomes of
\* File::open, Decoder::new and the mixer
PlaySound(d, c, opened, decoded_, accepted) ==
    /\ Constructed(c)
    /\ IF NotEnabled(d)
       THEN /\ lastPlaySound' = [called |-> TRUE, returned |-> FALSE,
                                  opened |-> FALSE]
            /\ UNCHANGED sources
       ELSE IF ~opened \/ ~decoded_ \/ ~PlayRaw(d, accepted)
       THEN /\ lastPlaySound' = [called |-> TRUE, returned |-> FALSE,
                                  opened |-> TRUE]
            /\ UNCHANGED sources
       ELSE /\ FreeSlot # 0
            /\ sources' = [sources EXCEPT ![FreeSlot] = NewSource(d, c)]
            /\ lastPlaySound' = [called |-> TRUE, returned |-> TRUE,
                                  opened |-> TRUE]
    /\ UNCHANGED <<output_devices, acquireFailed, inputVars, audioVars, auxVars>>

\* a closure that stops the source only while the controls are stopped
\* and not playing
StoppedAfter_WhilePaused(k) ==
    stopped[sources[k].controls] /\ ~playing[sources[k].controls]

\* the closure, lines 174-176: Stoppable::stop() when controls.stopped
StoppedAfter(k) == sources[k].stopped \/ stopped[sources[k].controls]

\* a closure that pauses and never resumes
PausedAfter_NoResume(k) ==
    sources[k].paused \/ ~playing[sources[k].controls]

\* the closure, lines 178-179: set_paused(!controls.playing)
PausedAfter(k) == ~playing[sources[k].controls]

\* a closure that ignores the muted flag
FactorAfter_NeverMuted(k) ==
    Gain(volume[sources[k].controls]
           + output_devices[sources[k].device].volume)

\* the closure, lines 180-189: set_factor(0.0) when the device is muted,
\* else set_factor(10^((controls volume + device volume) / 20))
FactorAfter(k) ==
    IF output_devices[sources[k].device].muted
    THEN 0
    ELSE Gain(volume[sources[k].controls]
                + output_devices[sources[k].device].volume)

\* one period of the source in slot k: the closure runs, then the audio
\* thread pulls samples: a paused Pausable gives silence without asking
\* the source below it; otherwise a stopped Stoppable gives None, the
\* source has ended and the mixer drops it; otherwise the samples of the
\* decoder times the factor
PeriodicAccess(k) ==
    /\ sources[k].at # "none"
    /\ sources' =
         [sources EXCEPT ![k] =
            IF StoppedAfter(k) /\ ~PausedAfter(k)
            THEN NoSource
            ELSE [@ EXCEPT !.at = "running",
                           !.stopped = StoppedAfter(k),
                           !.paused = PausedAfter(k),
                           !.factor = FactorAfter(k)]]
    /\ UNCHANGED <<output_devices, lastPlaySound, acquireFailed, inputVars,
                   audioVars, auxVars>>

\* OutputDevice::set_volume(volume)
DeviceSetVolume(d, v) ==
    /\ output_devices' = [output_devices EXCEPT ![d].volume = v]
    /\ UNCHANGED <<sources, lastPlaySound, acquireFailed, inputVars,
                   audioVars, auxVars>>

\* a toggle_muted() that toggles every device
ToggleMuted_All(d) ==
    /\ output_devices' =
         [e \in OutputDevices |->
            [output_devices[e] EXCEPT !.muted = ~output_devices[e].muted]]
    /\ UNCHANGED <<sources, lastPlaySound, acquireFailed, inputVars,
                   audioVars, auxVars>>

\* toggle_muted(): fetch_xor(true)
ToggleMuted(d) ==
    /\ output_devices' =
         [output_devices EXCEPT ![d].muted = ~output_devices[d].muted]
    /\ UNCHANGED <<sources, lastPlaySound, acquireFailed, inputVars,
                   audioVars, auxVars>>

\* set_muted(muted)
SetMuted(d, m) ==
    /\ output_devices' = [output_devices EXCEPT ![d].muted = m]
    /\ UNCHANGED <<sources, lastPlaySound, acquireFailed, inputVars,
                   audioVars, auxVars>>

(***************************************************************************)
(* Classification.  The tables of event.rs: the representation of each    *)
(* EventType and the codes each code enumeration defines, as far as the    *)
(* code universe below reaches.                                            *)
(***************************************************************************)
\* the largest of the small codes the records carry
MaxCode == 3

\* the u16 codes the records carry: small codes, FF_RUMBLE, BTN_LEFT and
\* the largest u16
Codes == (0 .. MaxCode) \cup {80, 272, 65535}

\* the u16 event types the records carry
EventTypeReprs == (0 .. 24) \cup {31, 65535}

None == [some |-> FALSE]

Some(x) == [some |-> TRUE, value |-> x]

\* EventType::from_repr
EventTypeFromRepr(n) ==
    CASE n = 0 -> Some("EV_SYN")
      [] n = 1 -> Some("EV_KEY")
      [] n = 2 -> Some("EV_REL")
      [] n = 3 -> Some("EV_ABS")
      [] n = 4 -> Some("EV_MSC")
      [] n = 5 -> Some("EV_SW")
      [] n = 17 -> Some("EV_LED")
      [] n = 18 -> Some("EV_SND")
      [] n = 20 -> Some("EV_REP")
      [] n = 21 -> Some("EV_FF")
      [] n = 22 -> Some("EV_PWR")
      [] n = 23 -> Some("EV_FF_STATUS")
      [] OTHER -> None

\* the codes of the universe each code enumeration defines
DefinedCodes(ty) ==
    CASE ty = "EV_SYN" -> 0 .. 3
      [] ty = "EV_KEY" -> (0 .. 83) \cup {272}
      [] ty = "EV_REL" -> 0 .. 12
      [] ty = "EV_ABS" -> 0 .. 10
      [] ty = "EV_MSC" -> 0 .. 6
      [] ty = "EV_SW" -> 0 .. 16
      [] ty = "EV_LED" -> 0 .. 10
      [] ty = "EV_SND" -> 0 .. 2
      [] ty = "EV_REP" -> 0 .. 1
      [] ty = "EV_FF" -> 80 .. 96
      [] ty = "EV_FF_STATUS" -> 0 .. 1
      [] OTHER -> {}

\* X::from_repr(code) of the code enumeration X of event type ty
CodeFromRepr(ty, code) ==
    IF code \in DefinedCodes(ty) THEN Some(code) ELSE None

\* as_event_type()
AsEventType(w) == EventTypeFromRepr(w.event_type)

\* an as_event() that classifies power events by their raw code
AsEvent_Power(w) ==
    IF ~EventTypeFromRepr(w.event_type).some THEN None
    ELSE IF EventTypeFromRepr(w.event_type).value = "EV_PWR"
    THEN Some([category |-> "EV_PWR", code |-> w.code])
    ELSE IF ~CodeFromRepr(EventTypeFromRepr(w.event_type).value, w.code).some
    THEN None
    ELSE Some([category |-> EventTypeFromRepr(w.event_type).value,
               code |-> w.code])

\* as_event(): each ? returns None from the function; the variant of Event
\* is named after the event type it wraps the code of
AsEvent(w) ==
    IF ~EventTypeFromRepr(w.event_type).some THEN None
    ELSE IF EventTypeFromRepr(w.event_type).value = "EV_PWR" THEN None
    ELSE IF ~CodeFromRepr(EventTypeFromRepr(w.event_type).value, w.code).some
    THEN None
    ELSE Some([category |-> EventTypeFromRepr(w.event_type).value,
               code |-> w.code])

InitClassify ==
    /\ event_wrapper = None
    /\ classified = None
    /\ returned = None

\* process_event whose buffer deserialized to a record of type ty and code
\* code: as_event() decides which line is printed, and the record is
\* returned
ProcessEventOk(ty, code) ==
    /\ event_wrapper' = Some([timestamp |-> <<1, 2>>, event_type |-> ty,
                              code |-> code, value |-> 0])
    /\ classified' = AsEvent(event_wrapper'.value)
    /\ returned' = event_wrapper'
    /\ UNCHANGED <<inputVars, audioVars, deviceVars, closureVars,
                   driverVars>>

(***************************************************************************)
(* The periodic_access closure, load by load.  The audio thread of a       *)
(* device runs the closures of the sources its stream mixes one after the  *)
(* other; the threads of different devices and the driver interleave.      *)
(***************************************************************************)
\* the closures the streams hold at a time, over all devices
MaxClosures == 2

Closures == 1 .. MaxClosures

NoClosure == [at |-> "none"]

\* nobody holds the mutex
Free == 0

InitClosures ==
    /\ closures = [k \in Closures |-> NoClosure]
    /\ volume_lock = [i \in Controls |-> Free]
    /\ device_volume_lock = [d \in OutputDevices |-> Free]

\* closure k exists and belongs to the stream of device d
ClosureOn(k, d) == closures[k].at # "none" /\ closures[k].device = d

\* the audio thread of device d is inside one of its closures
InClosure(d) ==
    \E k \in Closures : ClosureOn(k, d) /\ closures[k].at # "waiting"

\* play_sound on the enabled device d that gets as far as play_raw: the
\* closure captures the controls and the volume and muted cells of the
\* device, the Stoppable is not stopped and the Pausable not paused
ClosureNew(k, d, c) ==
    /\ closures[k].at = "none"
    /\ \A j \in Closures : j < k => closures[j].at # "none"
    /\ output_devices[d].enabled
    /\ Constructed(c)
    /\ closures' = [closures EXCEPT ![k] =
                      [at |-> "waiting", device |-> d, controls |-> c,
                       stopped |-> FALSE, paused |-> FALSE,
                       startedAfterStop |-> FALSE,
                       pausedAfterStop |-> FALSE]]
    /\ UNCHANGED <<volume_lock, device_volume_lock, inputVars, audioVars,
                   deviceVars, classifyVars, driverVars>>

\* a closure that never looks at controls.stopped
ClosureStopped_Never(k) ==
    /\ closures[k].at = "waiting"
    /\ ~InClosure(closures[k].device)
    /\ closures' = [closures EXCEPT ![k].at = "set_paused",
                      ![k].startedAfterStop = stopReturned[closures[k].controls]]
    /\ UNCHANGED <<volume_lock, device_volume_lock, inputVars, audioVars,
                   deviceVars, classifyVars, driverVars>>

\* the period of closure k is over and its thread enters it: the load of
\* controls.stopped, and stop() on the Stoppable when it is set.  History:
\* whether a stop() on the controls had returned when the closure began
ClosureStopped(k) ==
    /\ closures[k].at = "waiting"
    /\ ~InClosure(closures[k].device)
    /\ closures' = [closures EXCEPT
                      ![k].at = "set_paused",
                      ![k].stopped = @ \/ stopped[closures[k].controls],
                      ![k].startedAfterStop = stopReturned[closures[k].controls]]
    /\ UNCHANGED <<volume_lock, device_volume_lock, inputVars, audioVars,
                   deviceVars, classifyVars, driverVars>>

\* the load of controls.playing and set_paused of its negation.  History:
\* whether a stop() on the controls had returned at this load
ClosureSetPaused(k) ==
    /\ closures[k].at = "set_paused"
    /\ closures' = [closures EXCEPT
                      ![k].at = "muted",
                      ![k].paused = ~playing[closures[k].controls],
                      ![k].pausedAfterStop = stopReturned[closures[k].controls]]
    /\ UNCHANGED <<volume_lock, device_volume_lock, inputVars, audioVars,
                   deviceVars, classifyVars, driverVars>>

\* the load of muted: set_factor(0.0) when it is set, else on to the locks
ClosureMuted(k) ==
    /\ closures[k].at = "muted"
    /\ closures' = [closures EXCEPT ![k].at =
                      IF output_devices[closures[k].device].muted
                      THEN "samples" ELSE "lock_volume"]
    /\ UNCHANGED <<volume_lock, device_volume_lock, inputVars, audioVars,
                   deviceVars, classifyVars, driverVars>>

\* controls.volume.lock(): the thread waits until the mutex is free
ClosureLockVolume(k) ==
    /\ closures[k].at = "lock_volume"
    /\ volume_lock[closures[k].controls] = Free
    /\ volume_lock' = [volume_lock EXCEPT ![closures[k].controls] = k]
    /\ closures' = [closures EXCEPT ![k].at = "lock_device_volume"]
    /\ UNCHANGED <<device_volume_lock, inputVars, audioVars, deviceVars,
                   classifyVars, driverVars>>

\* device_volume.lock(), with the guard of controls.volume still alive
ClosureLockDeviceVolume(k) ==
    /\ closures[k].at = "lock_device_volume"
    /\ device_volume_lock[closures[k].device] = Free
    /\ device_volume_lock' =
         [device_volume_lock EXCEPT ![closures[k].device] = k]
    /\ closures' = [closures EXCEPT ![k].at = "set_factor"]
    /\ UNCHANGED <<volume_lock, inputVars, audioVars, deviceVars,
                   classifyVars, driverVars>>

\* a closure that keeps the guard of controls.volume alive
ClosureSetFactor_KeepGuard(k) ==
    /\ closures[k].at = "set_factor"
    /\ device_volume_lock' =
         [device_volume_lock EXCEPT ![closures[k].device] = Free]
    /\ closures' = [closures EXCEPT ![k].at = "samples"]
    /\ UNCHANGED <<volume_lock, inputVars, audioVars, deviceVars,
                   classifyVars, driverVars>>

\* set_factor of the gain, and the end of the statement drops both guards
ClosureSetFactor(k) ==
    /\ closures[k].at = "set_factor"
    /\ volume_lock' = [volume_lock EXCEPT ![closures[k].controls] = Free]
    /\ device_volume_lock' =
         [device_volume_lock EXCEPT ![closures[k].device] = Free]
    /\ closures' = [closures EXCEPT ![k].at = "samples"]
    /\ UNCHANGED <<inputVars, audioVars, deviceVars, classifyVars, driverVars>>

\* the closure has returned and the thread pulls the samples of the
\* period: a paused Pausable gives silence, otherwise a stopped Stoppable
\* ends the source and the mixer drops it with its closure
ClosureSamples(k) ==
    /\ closures[k].at = "samples"
    /\ closures' = [closures EXCEPT ![k] =
                      IF closures[k].stopped /\ ~closures[k].paused
                      THEN NoClosure
                      ELSE [@ EXCEPT !.at = "waiting"]]
    /\ UNCHANGED <<volume_lock, device_volume_lock, inputVars, audioVars,
                   deviceVars, classifyVars, driverVars>>

\* one step of the audio thread in closure k
ClosureStep(k) ==
    \/ ClosureStopped(k)
    \/ ClosureSetPaused(k)
    \/ ClosureMuted(k)
    \/ ClosureLockVolume(k)
    \/ ClosureLockDeviceVolume(k)
    \/ ClosureSetFactor(k)
    \/ ClosureSamples(k)

\* AudioControls::set_volume by the driver: it waits for the mutex
LockedSetVolume(i, v) == volume_lock[i] = Free /\ SetVolume("driver", i, v)

\* AudioControls::get_volume by the driver
LockedGetVolume(i) == volume_lock[i] = Free /\ GetVolume("driver", i)

\* OutputDevice::set_volume by the driver
LockedDeviceSetVolume(d, v) ==
    device_volume_lock[d] = Free /\ DeviceSetVolume(d, v)

\* OutputDevice::volume by the driver: a read under the mutex
LockedDeviceVolume(d) ==
    /\ device_volume_lock[d] = Free
    /\ gotVolume' = output_devices[d].volume
    /\ UNCHANGED <<constructed, playing, stopped, volume, tpc, stopReturned,
                   inputVars, deviceVars, auxVars>>

(***************************************************************************)
(* Soundboard, the driver.  Each action is what one frame of update() does *)
(* for one key release or one widget; the frame runs the key dispatch,     *)
(* then the central panel, then the settings window.                       *)
(***************************************************************************)
InitDriver ==
    /\ config_outputs = {}
    /\ config_sounds = <<>>
    /\ audio_controls = <<>>
    /\ device_keys = {}
    /\ soundboard = [started |-> FALSE, drawn |-> FALSE, playing |-> TRUE,
                     enabled |-> FALSE, modified |-> FALSE, panic |-> "none"]
    /\ made_for = [i \in Controls |-> 0]

\* the program runs: Soundboard::new has returned and nothing panicked
Running_ == soundboard.started /\ soundboard.panic = "none"

\* the program runs and has drawn a frame
Drawn == Running_ /\ soundboard.drawn

\* OutputDevice::new
NewDevice ==
    [enabled |-> FALSE, volume |-> 0, muted |-> FALSE,
     stream |-> FALSE, stream_handle |-> FALSE]

\* the device r after enable(), whose stream acquisition succeeds or not
AfterEnable(r, acquired) ==
    IF r.enabled THEN r
    ELSE IF acquired
    THEN [r EXCEPT !.stream = TRUE, !.stream_handle = TRUE,
                   !.enabled = TRUE]
    ELSE [r EXCEPT !.enabled = FALSE]

\* the device r after disable()
AfterDisable(r) ==
    IF ~r.enabled THEN r
    ELSE [r EXCEPT !.stream_handle = FALSE, !.stream = FALSE,
                   !.enabled = FALSE]

\* update_output_devices() while config.outputs has the keys outputs: the
\* map is cleared, which drops every device with its stream and sources;
\* each device the host returns (with a name) is constructed and, when
\* config.outputs has its name, given the configured volume and enabled
UpdateOutputDevices(outputs, discovered, acquired, vol) ==
    /\ device_keys' = discovered
    /\ output_devices' =
         [d \in OutputDevices |->
            IF d \in discovered /\ d \in outputs
            THEN AfterEnable([NewDevice EXCEPT !.volume = vol[d]],
                             acquired[d])
            ELSE NewDevice]
    /\ sources' = [k \in Slots |-> NoSource]
    /\ acquireFailed' =
         [d \in OutputDevices |->
            IF d \in discovered /\ d \in outputs
            THEN ~acquired[d] ELSE acquireFailed[d]]

\* Soundboard::new with a loaded configuration of n sounds and the output
\* names outputs: one AudioControls::new(false, true, 1.0) per sound, then
\* update_output_devices()
Startup(outputs, n, discovered, acquired, vol) ==
    /\ ~soundboard.started
    /\ constructed = 0
    /\ config_outputs' = outputs
    /\ config_sounds' = [i \in 1 .. n |-> i]
    /\ audio_controls' = [i \in 1 .. n |-> i]
    /\ made_for' = [i \in Controls |-> IF i <= n THEN i ELSE 0]
    /\ constructed' = n
    /\ playing' = [i \in Controls |-> FALSE]
    /\ stopped' = [i \in Controls |-> i <= n]
    /\ volume' = [i \in Controls |-> IF i <= n THEN 1 ELSE 0]
    /\ soundboard' = [started |-> TRUE, drawn |-> FALSE, playing |-> TRUE,
                      enabled |-> FALSE, modified |-> FALSE,
                      panic |-> "none"]
    /\ UpdateOutputDevices(outputs, discovered, acquired, vol)
    /\ UNCHANGED <<tpc, stopReturned, gotVolume, lastPlaySound, inputVars,
                   classifyVars, closureVars>>

\* the program ends with the panic p
Panic(p) == soundboard' = [soundboard EXCEPT !.panic = p]

\* the key dispatch of a release of the mute key of config.outputs[name]:
\* output_devices[name] panics when the map has no such key
KeyMute(name) ==
    /\ Drawn
    /\ name \in config_outputs
    /\ IF name \notin device_keys
       THEN /\ Panic("index")
            /\ UNCHANGED output_devices
       ELSE /\ output_devices' =
                 [output_devices EXCEPT ![name].muted = ~@]
            /\ UNCHANGED soundboard
    /\ UNCHANGED <<config_outputs, config_sounds, audio_controls,
                   device_keys, made_for, sources, lastPlaySound,
                   acquireFailed, inputVars, audioVars, classifyVars,
                   closureVars>>

\* the rows of the devices in the central panel unwrap
\* config.outputs.get_mut(name) for every key of output_devices
RowsUnwrap == device_keys \subseteq config_outputs

\* the first frame of update() that gets through: only then are there
\* widgets to use, the Connect button among them, and only after Connect
\* are there key releases
FirstFrame ==
    /\ Running_
    /\ ~soundboard.drawn
    /\ RowsUnwrap
    /\ soundboard' = [soundboard EXCEPT !.drawn = TRUE]
    /\ UNCHANGED <<config_outputs, config_sounds, audio_controls,
                   device_keys, made_for, deviceVars, inputVars, audioVars,
                   classifyVars, closureVars>>

\* the volume slider in the row of device d changes to v
DeviceVolumeSlider(d, v) ==
    /\ Drawn
    /\ RowsUnwrap
    /\ d \in device_keys
    /\ output_devices' = [output_devices EXCEPT ![d].volume = v]
    /\ UNCHANGED <<driverVars, sources, lastPlaySound, acquireFailed,
                   inputVars, audioVars, classifyVars, closureVars>>

\* the Reload Devices button of the settings window
ReloadDevices(discovered, acquired, vol) ==
    /\ Drawn
    /\ RowsUnwrap
    /\ UpdateOutputDevices(config_outputs, discovered, acquired, vol)
    /\ UNCHANGED <<config_outputs, config_sounds, audio_controls, soundboard,
                   made_for, lastPlaySound, inputVars, audioVars,
                   classifyVars, closureVars>>

\* the checkbox of device d in the settings window changes: it showed
\* enabled(); checked, the assertion, the insert into config.outputs and
\* enable(); unchecked, the remove and disable()
Checkbox(d, acquired) ==
    /\ Drawn
    /\ RowsUnwrap
    /\ d \in device_keys
    /\ IF ~output_devices[d].enabled
       THEN IF d \in config_outputs
            THEN /\ Panic("assert")
                 /\ UNCHANGED <<config_outputs, output_devices, sources,
                                acquireFailed>>
            ELSE /\ config_outputs' = config_outputs \cup {d}
                 /\ output_devices' =
                      [output_devices EXCEPT ![d] = AfterEnable(@, acquired)]
                 /\ acquireFailed' = [acquireFailed EXCEPT ![d] = ~acquired]
                 /\ sources' = DropStream(d)
                 /\ UNCHANGED soundboard
       ELSE /\ config_outputs' = config_outputs \ {d}
            /\ output_devices' =
                 [output_devices EXCEPT ![d] = AfterDisable(@)]
            /\ sources' = DropStream(d)
            /\ UNCHANGED <<soundboard, acquireFailed>>
    /\ UNCHANGED <<config_sounds, audio_controls, device_keys, made_for,
                   lastPlaySound, inputVars, audioVars, classifyVars,
                   closureVars>>

\* the AudioControls instances of audio_controls
Listed == {audio_controls[i] : i \in 1 .. Len(audio_controls)}

\* a stop() that does not store playing
StopPlayingOf_NoStore(S) == playing

\* playing, stopped and the history of stop() after the driver has called
\* stop() on every instance of S
StopPlayingOf(S) == [i \in Controls |-> IF i \in S THEN FALSE ELSE playing[i]]

StopStoppedOf(S) == [i \in Controls |-> IF i \in S THEN TRUE ELSE stopped[i]]

StopReturnedOf(S) ==
    [i \in Controls |-> IF i \in S THEN TRUE ELSE stopReturned[i]]

\* Vec::insert(0, x), Vec::remove(i) and Vec::swap(i, j)
Insert0(list, x) == <<x>> \o list

RemoveAt(list, i) ==
    SubSeq(list, 1, i - 1) \o SubSeq(list, i + 1, Len(list))

Swap(list, i, j) == [list EXCEPT ![i] = list[j], ![j] = list[i]]

\* the enabled devices of the map, the free slots of the mixers and a way
\* to give each such device a slot of its own
EnabledKeys == {d \in device_keys : output_devices[d].enabled}

FreeSlots == {k \in Slots : sources[k].at = "none"}

SlotOf ==
    CHOOSE f \in [EnabledKeys -> FreeSlots \cup {0}] :
      \/ Cardinality(EnabledKeys) > Cardinality(FreeSlots)
      \/ /\ \A d \in EnabledKeys : f[d] # 0
         /\ \A d \in EnabledKeys : \A e \in EnabledKeys :
              f[d] = f[e] => d = e

\* Soundboard::play_sound with controls c: play_sound on every device of
\* the map, all with the same outcomes of File::open, Decoder::new and
\* play_raw; last is the device the iteration ends with
PlayOnAll(c, o, last) ==
    /\ (o[1] /\ o[2] /\ o[3])
         => Cardinality(EnabledKeys) <= Cardinality(FreeSlots)
    /\ sources' =
         IF o[1] /\ o[2] /\ o[3]
         THEN [k \in Slots |->
                 IF \E d \in EnabledKeys : SlotOf[d] = k
                 THEN NewSource(CHOOSE d \in EnabledKeys : SlotOf[d] = k, c)
                 ELSE sources[k]]
         ELSE sources
    /\ lastPlaySound' =
         IF device_keys = {} THEN lastPlaySound
         ELSE [called |-> TRUE,
               returned |-> last \in EnabledKeys /\ o[1] /\ o[2] /\ o[3],
               opened |-> last \in EnabledKeys /\ o[1]]

\* the key dispatch of a release of the key of config.sounds[i], while the
\* soundboard is enabled: with the modifier, pause or play the controls of
\* the sound and clear the modifier; without it, stop the controls, put a
\* new AudioControls::new(true, false, v) in their place and play the
\* sound with it on every device
KeySound(i, v, o, last) ==
    /\ Drawn
    /\ soundboard.enabled
    /\ i \in 1 .. Len(config_sounds)
    /\ last \in device_keys \/ device_keys = {}
    /\ IF i \notin 1 .. Len(audio_controls)
       THEN /\ Panic("bounds")
            /\ UNCHANGED <<audio_controls, made_for, audioVars, sources,
                           lastPlaySound>>
       ELSE IF soundboard.modified
       THEN /\ playing' = [playing EXCEPT ![audio_controls[i]] = ~@]
            /\ soundboard' = [soundboard EXCEPT !.modified = FALSE]
            /\ UNCHANGED <<audio_controls, made_for, constructed, stopped,
                           volume, tpc, stopReturned, gotVolume, sources,
                           lastPlaySound>>
       ELSE /\ constructed < MaxControls
            /\ constructed' = constructed + 1
            /\ playing' = [StopPlayingOf({audio_controls[i]})
                             EXCEPT ![constructed + 1] = TRUE]
            /\ stopped' = [StopStoppedOf({audio_controls[i]})
                             EXCEPT ![constructed + 1] = FALSE]
            /\ stopReturned' = StopReturnedOf({audio_controls[i]})
            /\ volume' = [volume EXCEPT ![constructed + 1] = v]
            /\ audio_controls' =
                 [audio_controls EXCEPT ![i] = constructed + 1]
            /\ made_for' =
                 [made_for EXCEPT ![constructed + 1] = config_sounds[i]]
            /\ PlayOnAll(constructed + 1, o, last)
            /\ UNCHANGED <<soundboard, tpc, gotVolume>>
    /\ UNCHANGED <<config_outputs, config_sounds, device_keys,
                   output_devices, acquireFailed, inputVars, classifyVars,
                   closureVars>>

\* the key dispatch of a release of the pause shortcut
KeyPause ==
    /\ Drawn
    /\ soundboard' = [soundboard EXCEPT !.playing = ~@]
    /\ playing' = [i \in Controls |->
                     IF i \in Listed THEN ~soundboard.playing
                     ELSE playing[i]]
    /\ UNCHANGED <<config_outputs, config_sounds, audio_controls,
                   device_keys, made_for, constructed, stopped, volume, tpc,
                   stopReturned, gotVolume, deviceVars, inputVars,
                   classifyVars, closureVars>>

\* the key dispatch of a release of the stop shortcut
KeyStop ==
    /\ Drawn
    /\ soundboard' = [soundboard EXCEPT !.playing = FALSE]
    /\ playing' = StopPlayingOf(Listed)
    /\ stopped' = StopStoppedOf(Listed)
    /\ stopReturned' = StopReturnedOf(Listed)
    /\ UNCHANGED <<config_outputs, config_sounds, audio_controls,
                   device_keys, made_for, constructed, volume, tpc,
                   gotVolume, deviceVars, inputVars, classifyVars,
                   closureVars>>

\* the key dispatch of a release of the modifier shortcut
KeyModifier ==
    /\ Drawn
    /\ soundboard' = [soundboard EXCEPT !.modified = ~@]
    /\ UNCHANGED <<config_outputs, config_sounds, audio_controls,
                   device_keys, made_for, audioVars, deviceVars, inputVars,
                   classifyVars, closureVars>>

\* the enable toggle of the central panel changes: switched off, every
\* controls is stopped
EnableToggle ==
    /\ Drawn
    /\ soundboard' = [soundboard EXCEPT !.enabled = ~@]
    /\ IF soundboard.enabled
       THEN /\ playing' = StopPlayingOf(Listed)
            /\ stopped' = StopStoppedOf(Listed)
            /\ stopReturned' = StopReturnedOf(Listed)
       ELSE UNCHANGED <<playing, stopped, stopReturned>>
    /\ UNCHANGED <<config_outputs, config_sounds, audio_controls,
                   device_keys, made_for, constructed, volume, tpc,
                   gotVolume, deviceVars, inputVars, classifyVars,
                   closureVars>>

\* the volume slider of the central panel changes: set_volume of
\* config.volume * config.sounds[i].volume, here vs[i], on audio_controls[i]
\* for every index i of audio_controls
VolumeSlider(vs) ==
    /\ Drawn
    /\ IF Len(audio_controls) > Len(config_sounds)
       THEN /\ Panic("bounds")
            /\ UNCHANGED volume
       ELSE /\ volume' = [c \in Controls |->
                            IF c \in Listed THEN vs[c] ELSE volume[c]]
            /\ UNCHANGED soundboard
    /\ UNCHANGED <<config_outputs, config_sounds, audio_controls,
                   device_keys, made_for, constructed, playing, stopped,
                   tpc, stopReturned, gotVolume, deviceVars, inputVars,
                   classifyVars, closureVars>>

\* the rows of the sounds read audio_controls[i].stopped() for every index
\* i of config.sounds
RowsIndex == Len(config_sounds) <= Len(audio_controls)

\* a frame whose rows panic
RowsPanic ==
    /\ Running_
    /\ ~RowsUnwrap \/ ~RowsIndex
    /\ Panic(IF ~RowsUnwrap THEN "unwrap" ELSE "bounds")
    /\ UNCHANGED <<config_outputs, config_sounds, audio_controls,
                   device_keys, made_for, deviceVars, inputVars, audioVars,
                   classifyVars, closureVars>>

\* the volume slider in the row of sound i changes to v
SoundVolumeSlider(i, v) ==
    /\ Drawn
    /\ RowsUnwrap
    /\ i \in 1 .. Len(config_sounds)
    /\ i \in 1 .. Len(audio_controls)
    /\ volume' = [volume EXCEPT ![audio_controls[i]] = v]
    /\ UNCHANGED <<driverVars, constructed, playing, stopped, tpc,
                   stopReturned, gotVolume, deviceVars, inputVars,
                   classifyVars, closureVars>>

\* an Add button that inserts the sound only
Add_SoundOnly(v) ==
    /\ Drawn
    /\ RowsUnwrap
    /\ constructed < MaxControls
    /\ constructed' = constructed + 1
    /\ config_sounds' = Insert0(config_sounds, constructed + 1)
    /\ UNCHANGED <<audio_controls, made_for, playing, stopped, volume>>
    /\ UNCHANGED <<config_outputs, device_keys, soundboard, tpc,
                   stopReturned, gotVolume, deviceVars, inputVars,
                   classifyVars, closureVars>>

\* the Add button: a new AudioControls::new(false, false, v) and the new
\* sound are inserted at index 0 of their lists
Add(v) ==
    /\ Drawn
    /\ RowsUnwrap
    /\ constructed < MaxControls
    /\ constructed' = constructed + 1
    /\ playing' = [playing EXCEPT ![constructed + 1] = FALSE]
    /\ stopped' = [stopped EXCEPT ![constructed + 1] = FALSE]
    /\ volume' = [volume EXCEPT ![constructed + 1] = v]
    /\ audio_controls' = Insert0(audio_controls, constructed + 1)
    /\ config_sounds' = Insert0(config_sounds, constructed + 1)
    /\ made_for' = [made_for EXCEPT ![constructed + 1] = constructed + 1]
    /\ UNCHANGED <<config_outputs, device_keys, soundboard, tpc,
                   stopReturned, gotVolume, deviceVars, inputVars,
                   classifyVars, closureVars>>

\* the Remove button in the row of sound i
Remove(i) ==
    /\ Drawn
    /\ RowsUnwrap
    /\ RowsIndex
    /\ i \in 1 .. Len(config_sounds)
    /\ config_sounds' = RemoveAt(config_sounds, i)
    /\ IF i > Len(audio_controls)
       THEN /\ Panic("bounds")
            /\ UNCHANGED audio_controls
       ELSE /\ audio_controls' = RemoveAt(audio_controls, i)
            /\ UNCHANGED soundboard
    /\ UNCHANGED <<config_outputs, device_keys, made_for, audioVars,
                   deviceVars, inputVars, classifyVars, closureVars>>

\* the ^ button (j = i - 1, shown when i > 0) or the v button (j = i + 1,
\* shown when i < length - 1) in the row of sound i
Move(i, j) ==
    /\ Drawn
    /\ RowsUnwrap
    /\ RowsIndex
    /\ i \in 1 .. Len(config_sounds)
    /\ \/ j = i - 1 /\ i > 1
       \/ j = i + 1 /\ i < Len(config_sounds)
    /\ config_sounds' = Swap(config_sounds, i, j)
    /\ IF i > Len(audio_controls) \/ j > Len(audio_controls)
       THEN /\ Panic("bounds")
            /\ UNCHANGED audio_controls
       ELSE /\ audio_controls' = Swap(audio_controls, i, j)
            /\ UNCHANGED soundboard
    /\ UNCHANGED <<config_outputs, device_keys, made_for, audioVars,
                   deviceVars, inputVars, classifyVars, closureVars>>

\* a period of the source in slot k while the program runs
Period(k) == soundboard.panic = "none" /\ PeriodicAccess(k)

InitAux == InitClassify /\ InitClosures /\ InitDriver

(***************************************************************************)
(* Specifications.                                                         *)
(***************************************************************************)
vars == <<inputVars, audioVars, deviceVars, auxVars>>

Init == InitInput /\ InitAudio /\ InitDevice /\ InitAux

Next ==
    \/ Connect
    \/ Disconnect
    \/ Events
    \/ \E s \in Sessions : ClientConnect(s)
    \/ \E s \in Sessions : ProcessEvent(s)
    \/ \E s \in Sessions : ProcessEventReadError(s)
    \/ \E s \in Sessions : \E c \in Chunks : PeerSend(s, c)
    \/ \E s \in Sessions : PeerClose(s)

\* the remote input client, its manager and the peers
Spec == Init /\ [][Next]_vars

\* every worker thread is scheduled: a step it can take is taken
SpecFair == Spec /\ \A s \in Sessions : WF_vars(WorkerStep(s))

NextSessions ==
    \/ ConnectUpTo(MaxSessions + 1)
    \/ Disconnect
    \/ Events
    \/ \E s \in Sessions : ClientConnect(s)
    \/ \E s \in Sessions : ProcessEvent(s)
    \/ \E s \in Sessions : ProcessEventReadError(s)
    \/ \E s \in Sessions : \E c \in Chunks : PeerSend(s, c)
    \/ \E s \in Sessions : PeerClose(s)

\* the remote input client, its manager and the peers, with one more
\* connect()
SpecSessions == Init /\ [][NextSessions]_vars

NextAudio ==
    \/ \E p \in BOOLEAN : \E st \in BOOLEAN : \E v \in Volumes : New(p, st, v)
    \/ Default
    \/ \E t \in Threads : \E i \in Controls : Play(t, i)
    \/ \E t \in Threads : \E i \in Controls : Pause(t, i)
    \/ \E t \in Threads : \E i \in Controls : StopPlaying(t, i)
    \/ \E t \in Threads : StopStopped(t)
    \/ \E t \in Threads : \E i \in Controls : \E p \in BOOLEAN :
         SetPlaying(t, i, p)
    \/ \E t \in Threads : \E i \in Controls : \E v \in Volumes :
         SetVolume(t, i, v)
    \/ \E t \in Threads : \E i \in Controls : GetVolume(t, i)

\* the AudioControls instances and the threads that call them
SpecAudio == Init /\ [][NextAudio]_vars

\* the driver constructs and stops controls, enables and disables the
\* devices and plays sounds on them, with every outcome of the stream
\* acquisition, the file, the decoder and the mixer; the audio threads
\* run the sources
NextDevice ==
    \/ New(TRUE, FALSE, 0)
    \/ \E i \in Controls : StopPlaying("driver", i)
    \/ StopStopped("driver")
    \/ \E d \in OutputDevices : \E a \in BOOLEAN : Enable(d, a)
    \/ \E d \in OutputDevices : Disable(d)
    \/ \E d \in OutputDevices : \E c \in Controls : \E o \in Outcomes :
         PlaySound(d, c, o[1], o[2], o[3])
    \/ \E k \in Slots : PeriodicAccess(k)

\* the output devices, their streams and the sources they mix
SpecDevice == Init /\ [][NextDevice]_vars

\* the driver's calls on the controls of the sounds and on the volume and
\* muted flag of the devices, around sounds that play on enabled devices
\* whose stream could be acquired; the audio threads run the sources
NextPipeline ==
    \/ New(TRUE, FALSE, 0)
    \/ \E i \in Controls : Play("driver", i)
    \/ \E i \in Controls : Pause("driver", i)
    \/ \E i \in Controls : StopPlaying("driver", i)
    \/ StopStopped("driver")
    \/ \E i \in Controls : \E p \in BOOLEAN : SetPlaying("driver", i, p)
    \/ \E i \in Controls : \E v \in DeviceVolumes : SetVolume("driver", i, v)
    \/ \E d \in OutputDevices : Enable(d, TRUE)
    \/ \E d \in OutputDevices : Disable(d)
    \/ \E d \in OutputDevices : \E c \in Controls :
         output_devices[d].enabled /\ PlaySound(d, c, TRUE, TRUE, TRUE)
    \/ \E k \in Slots : PeriodicAccess(k)
    \/ \E d \in OutputDevices : \E v \in DeviceVolumes : DeviceSetVolume(d, v)
    \/ \E d \in OutputDevices : ToggleMuted(d)
    \/ \E d \in OutputDevices : \E m \in BOOLEAN : SetMuted(d, m)

\* the sources of the playing sounds under the controls of the driver
SpecPipeline == Init /\ [][NextPipeline]_vars

NextClassify ==
    \E ty \in EventTypeReprs : \E code \in Codes : ProcessEventOk(ty, code)

\* process_event on deserialized records of every type and code
SpecClassify == Init /\ [][NextClassify]_vars

NextStop ==
    \/ New(TRUE, FALSE, 0)
    \/ \E i \in Controls : StopPlaying("driver", i)
    \/ StopStopped("driver")
    \/ \E d \in OutputDevices : Enable(d, TRUE)
    \/ \E k \in Closures : \E d \in OutputDevices : \E c \in Controls :
         ClosureNew(k, d, c)
    \/ \E k \in Closures : ClosureStep(k)

NextLocks ==
    \/ New(TRUE, FALSE, 0)
    \/ \E d \in OutputDevices : Enable(d, TRUE)
    \/ \E k \in Closures : \E d \in OutputDevices : \E c \in Controls :
         ClosureNew(k, d, c)
    \/ \E k \in Closures : ClosureStep(k)
    \/ \E i \in Controls : \E v \in DeviceVolumes : LockedSetVolume(i, v)
    \/ \E i \in Controls : LockedGetVolume(i)
    \/ \E d \in OutputDevices : \E v \in DeviceVolumes :
         LockedDeviceSetVolume(d, v)
    \/ \E d \in OutputDevices : LockedDeviceVolume(d)

\* the volume calls of the driver against the closures of the sounds that
\* play, lock by lock; no device is muted, so that every closure takes
\* both locks
SpecLocks == Init /\ [][NextLocks]_vars

\* every audio thread is scheduled, and one that waits for a mutex gets it
\* when the mutex is free again and again
SpecLocksFair == SpecLocks /\ \A k \in Closures : SF_vars(ClosureStep(k))

\* stop() by the driver, store by store, against the closures of the
\* sounds that play, load by load
SpecStop == Init /\ [][NextStop]_vars

NextSettings ==
    \/ \E outputs \in SUBSET OutputDevices : \E n \in 0 .. MaxControls :
         \E discovered \in SUBSET OutputDevices :
           \E acquired \in [OutputDevices -> BOOLEAN] :
             \E vol \in [OutputDevices -> DeviceVolumes] :
               Startup(outputs, n, discovered, acquired, vol)
    \/ FirstFrame
    \/ \E name \in OutputDevices : KeyMute(name)
    \/ RowsPanic
    \/ \E d \in OutputDevices : \E v \in DeviceVolumes :
         DeviceVolumeSlider(d, v)
    \/ \E discovered \in SUBSET OutputDevices :
         \E acquired \in [OutputDevices -> BOOLEAN] :
           \E vol \in [OutputDevices -> DeviceVolumes] :
             ReloadDevices(discovered, acquired, vol)
    \/ \E d \in OutputDevices : \E acquired \in BOOLEAN :
         Checkbox(d, acquired)

\* the driver with its devices: startup with any configuration, the mute
\* keys, the device rows and the settings window
SpecSettings == Init /\ [][NextSettings]_vars

NextSounds ==
    \/ \E outputs \in SUBSET OutputDevices : \E n \in 0 .. MaxControls :
         \E discovered \in SUBSET OutputDevices :
           \E acquired \in [OutputDevices -> BOOLEAN] :
             Startup(outputs, n, discovered, acquired,
                     [d \in OutputDevices |-> 0])
    \/ FirstFrame
    \/ RowsPanic
    \/ \E i \in Controls : \E v \in DeviceVolumes : \E o \in Outcomes :
         \E last \in OutputDevices : KeySound(i, v, o, last)
    \/ KeyPause
    \/ KeyStop
    \/ KeyModifier
    \/ EnableToggle
    \/ \E vs \in [Controls -> DeviceVolumes] : VolumeSlider(vs)
    \/ \E i \in Controls : \E v \in DeviceVolumes : SoundVolumeSlider(i, v)
    \/ \E v \in DeviceVolumes : Add(v)
    \/ \E i \in Controls : Remove(i)
    \/ \E i \in Controls : \E j \in Controls : Move(i, j)
    \/ \E k \in Slots : Period(k)

\* the driver with its sounds: startup with any configuration (of device
\* volume 0), the keys
\* of the sounds and the shortcuts, the central panel and the rows of the
\* sounds, and the audio threads that run the sources
SpecSounds == Init /\ [][NextSounds]_vars

(***************************************************************************)
(* Properties.                                                             *)
(***************************************************************************)
IsPrefix(a, b) == Len(a) <= Len(b) /\ SubSeq(b, 1, Len(a)) = a

\* the worker of session s has been spawned and has not returned
Alive(s) == wpc[s] \in {"connecting", "reading"}

\* RemoteInputClient::connect returned Some in session s
ClientReturned(s) ==
    \/ wpc[s] = "reading"
    \/ exitMessage[s] \in {"Server disconnected.",
                           "Local channel disconnected."}

\* the worker of session s left its loop because process_event returned
\* None, after the peer had closed and without any failed read
EndedAtPeerClose(s) ==
    /\ wpc[s] = "done"
    /\ exitMessage[s] = "Server disconnected."
    /\ peerClosed[s]
    /\ readErrors[s] = 0

\* C1: a frame that fails to decode is skipped: when the peer has sent
\* whole frames only and closed, the worker has decoded every valid frame
\* of the stream, in order, also those after a corrupted one.
C1_DecodeFailureSkipped ==
    \A s \in Sessions :
      (EndedAtPeerClose(s) /\ UndelimitedTail(wire[s]) = <<>>)
        => decoded[s] = ValidRecords(wire[s])

\* C2: once a stop() call on an instance has returned, stopped() is true
\* whatever play(), pause(), set_playing(), set_volume() or get_volume()
\* calls any thread made since.
C2_StoppedStaysSet ==
    \A i \in Controls : stopReturned[i] => stopped[i]

\* C2 witness: play() after a returned stop(): playing again, still stopped
C2_Witness ==
    \E i \in Controls : stopReturned[i] /\ playing[i] /\ stopped[i]

\* C3: what events() has returned for a session is a prefix of what its
\* worker decoded, and while the manager holds the session's receiver the
\* returned records followed by the buffered ones are exactly the decoded
\* ones, in decode order: nothing is lost, duplicated or reordered.
C3_EventsAreDecodedInOrder ==
    \A s \in Sessions :
      /\ IsPrefix(delivered[s], decoded[s])
      /\ event_receiver = s => delivered[s] \o chan[s] = decoded[s]

\* C3 witness: events() returned a record mid-stream, the peer closed and
\* the worker has finished while another record is still buffered
C3_Witness ==
    \E s \in Sessions :
      /\ event_receiver = s
      /\ wpc[s] = "done"
      /\ peerClosed[s]
      /\ delivered[s] # <<>>
      /\ chan[s] # <<>>

\* C4: with the workers scheduled fairly, once the peer of the manager's
\* session has closed, connected() becomes false (or the session is
\* replaced by a connect()); and connected() turns true only by connect().
C4_PeerCloseEndsConnected ==
    /\ \A s \in Sessions :
         (peerClosed[s] /\ remote_input_thread = s)
           ~> (~Connected \/ remote_input_thread # s)
    /\ [][(~Connected /\ Connected') => sessions' # sessions]_vars

\* C4 witness: the peer closed, nobody called disconnect(), the worker has
\* exited at the zero-byte read and connected() is false
C4_Witness ==
    \E s \in Sessions :
      /\ peerClosed[s]
      /\ lastCall = "connect"
      /\ remote_input_thread = s
      /\ event_receiver = s
      /\ exitMessage[s] = "Server disconnected."
      /\ ~Connected

C6_DisconnectedIsSilent ==
    lastCall \in {"new", "disconnect"}
      => (~Connected /\ EventsResult = <<>>)

\* C6 witness: after disconnect() the former worker is still reading, has
\* decoded a record and has bytes of the peer left to read
C6_Witness ==
    /\ lastCall = "disconnect"
    /\ \E s \in Sessions :
         wpc[s] = "reading" /\ decoded[s] # <<>> /\ Available(s) # <<>>

\* C7: a session whose TCP connect failed, or whose handshake write
\* returned an error or zero bytes, has a worker that has returned, and
\* nothing was decoded, buffered or returned by events() in it; if it is
\* the manager's session connected() is false.
C7_FailedConnectSendsNothing ==
    \A s \in Sessions :
      (tcpResult[s] = "err" \/ writeResult[s] \in {WriteErr, 0})
        => /\ wpc[s] = "done"
           /\ exitMessage[s] = "Unable to connect."
           /\ decoded[s] = <<>>
           /\ chan[s] = <<>>
           /\ delivered[s] = <<>>
           /\ remote_input_thread = s => ~Connected

\* C7 witness: the handshake write returned zero bytes in the session whose
\* receiver the manager still holds, with no disconnect() call
C7_Witness ==
    \E s \in Sessions :
      /\ tcpResult[s] = "ok"
      /\ writeResult[s] = 0
      /\ event_receiver = s
      /\ lastCall = "connect"

\* C8: a client exists only if the whole of credential ++ 0x00 was written.
C8_HandshakeWrittenWhole ==
    \A s \in Sessions :
      ClientReturned(s) => writeResult[s] = Len(HandshakeBytes)

\* C9: N valid frames, possibly followed by a frame whose delimiter never
\* came, then peer close: the records of the N frames, in order, and
\* nothing for the truncated frame.
C9_TruncatedFrameYieldsNothing ==
    \A s \in Sessions :
      (EndedAtPeerClose(s) /\ AllFramesValid(wire[s]))
        => decoded[s] = ValidRecords(wire[s])

\* C10: after a read of the session failed, its worker has left the loop.
C10_ReadErrorEndsSession ==
    \A s \in Sessions : readErrors[s] > 0 => wpc[s] = "done"

\* the step is no iteration of the loop of the worker of session s:
\* nothing was read, and no read failed
NoIteration(s) ==
    /\ rpos'[s] = rpos[s]
    /\ event_buffer'[s] = event_buffer[s]
    /\ readErrors'[s] = readErrors[s]

\* C11: a session never restarts by itself: an iteration in which
\* process_event returns None is the worker's last step (a worker still
\* in its loop after a step that decoded nothing has not run); a worker that
\* has returned stays returned, reads and decodes nothing more and puts
\* nothing more into its channel; and while no connect() is called a
\* connected() that is false stays false.
C11_NoRestart ==
    [][\A s \in Sessions :
         /\ (wpc[s] = "reading" /\ wpc'[s] = "reading"
               /\ decoded'[s] = decoded[s]) => NoIteration(s)
         /\ wpc[s] = "done" =>
               /\ wpc'[s] = "done"
               /\ decoded'[s] = decoded[s]
               /\ rpos'[s] = rpos[s]
               /\ IsPrefix(chan'[s], chan[s])
         /\ (~Connected /\ sessions' = sessions) => ~Connected']_vars

\* C11 witness: process_event returned None on a corrupted frame while the
\* peer stays open with a whole frame still unread, and the manager still
\* holds the handle and the receiver of the returned worker
C11_Witness ==
    \E s \in Sessions :
      /\ wpc[s] = "done"
      /\ exitMessage[s] = "Server disconnected."
      /\ ~peerClosed[s]
      /\ FirstZero(Available(s), 1) # 0
      /\ remote_input_thread = s
      /\ event_receiver = s
      /\ ~Connected

\* the worker of session s runs and the receiver of its channel is gone
Orphaned(s) == Alive(s) /\ event_receiver # s

\* C12: a worker whose receiver is gone is left running by disconnect(),
\* and the first iteration of its loop is its last (while it stays in the
\* loop it has not run), whether it decodes a record (the send fails) or
\* reads zero bytes, and it puts nothing into its channel; with
\* the workers scheduled fairly, once the peer has sent a frame or closed
\* the worker returns.
C12_OrphanedWorkerTerminates ==
    /\ [][\A s \in Sessions :
            /\ (Orphaned(s) /\ wpc[s] = "reading" /\ wpc'[s] = "reading")
                  => NoIteration(s)
            /\ Orphaned(s) => chan'[s] = <<>>
            /\ (Alive(s) /\ Disconnect) => Alive(s)']_vars
    /\ \A s \in Sessions :
         (Orphaned(s) /\ wpc[s] = "reading" /\ ReadReady(s))
            ~> (wpc[s] = "done")

\* C12 witness: after disconnect() the worker decoded a frame, its send
\* failed and it returned
C12_Witness ==
    \E s \in Sessions :
      /\ lastCall = "disconnect"
      /\ event_receiver = 0
      /\ wpc[s] = "done"
      /\ exitMessage[s] = "Local channel disconnected."
      /\ decoded[s] # <<>>
      /\ chan[s] = <<>>

\* everything but what play_sound returned
ButLastPlaySound ==
    <<output_devices, sources, acquireFailed, audioVars, inputVars>>

\* the source in slot k has run its closure and is not paused
Rendering(k) == sources[k].at = "running" /\ ~sources[k].paused

\* C13: enable() on an enabled device and disable() on a disabled device
\* change nothing, whatever the stream acquisition would have given, and
\* an enable() whose acquisition fails leaves the device disabled, with
\* no stream and no stream handle.
C13_EnableDisableIdempotent ==
    [][\A d \in OutputDevices :
         /\ (output_devices[d].enabled /\ \E a \in BOOLEAN : Enable(d, a))
               => UNCHANGED vars
         /\ (~output_devices[d].enabled /\ Disable(d)) => UNCHANGED vars
         /\ (~output_devices[d].enabled /\ Enable(d, FALSE))
               => /\ ~output_devices'[d].enabled
                  /\ ~output_devices'[d].stream
                  /\ ~output_devices'[d].stream_handle]_vars

\* C13 witness: the acquisition of one device failed and it is disabled
\* with no stream and no handle, while the other device is enabled and its
\* stream renders a source that a second acquisition would drop
C13_Witness ==
    \E d \in OutputDevices : \E e \in OutputDevices : \E k \in Slots :
      /\ acquireFailed[d]
      /\ ~output_devices[d].enabled
      /\ ~output_devices[d].stream
      /\ ~output_devices[d].stream_handle
      /\ output_devices[e].enabled
      /\ On(k, e)
      /\ Rendering(k)

\* C14: play_sound on a disabled device returns false without calling
\* File::open, and changes neither a device, nor a source, nor any
\* AudioControls.
C14_PlaySoundDisabledNoOp ==
    [][\A d \in OutputDevices : \A o \in Outcomes :
         (/\ ~output_devices[d].enabled
          /\ \E c \in Controls : PlaySound(d, c, o[1], o[2], o[3]))
           => /\ ~lastPlaySound'.returned
              /\ ~lastPlaySound'.opened
              /\ UNCHANGED ButLastPlaySound]_vars

\* C14 witness: the last play_sound returned false before File::open, on
\* a disabled device, while the other device renders a source
C14_Witness ==
    /\ lastPlaySound.called
    /\ ~lastPlaySound.returned
    /\ ~lastPlaySound.opened
    /\ \E d \in OutputDevices : ~output_devices[d].enabled
    /\ \E k \in Slots : Rendering(k)

\* C15: play_sound returns true exactly when the device is enabled, the
\* file opened, the decoder accepted it and the mixer took the source;
\* when it returns false no source was added and no device, source,
\* AudioControls or part of the remote input connection changed.
C15_PlaySoundTrueIffAllSucceed ==
    [][\A d \in OutputDevices :
         /\ \A o \in Outcomes :
              (\E c \in Controls : PlaySound(d, c, o[1], o[2], o[3]))
                => /\ lastPlaySound'.returned
                        <=> (output_devices[d].enabled
                               /\ o[1] /\ o[2] /\ o[3])
                   /\ ~lastPlaySound'.returned
                        => UNCHANGED ButLastPlaySound
         /\ \A c \in Controls :
              (lastPlaySound'.returned /\ PlaySound(d, c, TRUE, TRUE, TRUE))
                => \E k \in Slots :
                     /\ sources[k] = NoSource
                     /\ sources' = [sources EXCEPT ![k] = NewSource(d, c)]
                     /\ UNCHANGED <<output_devices, audioVars, inputVars>>]_vars

\* C15 witness: the last play_sound opened the file and returned false
\* while a source of an earlier call renders
C15_Witness ==
    /\ lastPlaySound.called
    /\ lastPlaySound.opened
    /\ ~lastPlaySound.returned
    /\ \E k \in Slots : Rendering(k)

\* C19: a device that is not enabled holds no stream and no handle and no
\* source is mixed for it: disable() leaves none to render or to run its
\* closure, and the stream of the next enable() starts with none.
C19_NoSourceOutlivesEnabled ==
    \A d \in OutputDevices :
      ~output_devices[d].enabled =>
        /\ ~output_devices[d].stream
        /\ ~output_devices[d].stream_handle
        /\ \A k \in Slots : ~On(k, d)

\* C19 witness: a play_sound returned true, no controls were stopped, yet
\* no source is left and every device is enabled: the device of the
\* source was disabled while it played and enabled again
C19_Witness ==
    /\ lastPlaySound.returned
    /\ \A i \in Controls : ~stopped[i]
    /\ \A k \in Slots : sources[k] = NoSource
    /\ \A d \in OutputDevices :
         output_devices[d].enabled /\ output_devices[d].stream

\* slot k holds a source before and after the step
Kept(k) == sources[k].at # "none" /\ sources'[k].at # "none"

\* C16: a closure run that reads stopped = true leaves the source stopped
\* or ended, and a stopped source stays stopped until it is dropped and
\* never renders, whatever the driver calls on its controls and device.
C16_StoppedSourceStaysStopped ==
    [][\A k \in Slots :
         /\ (PeriodicAccess(k) /\ stopped[sources[k].controls])
               => (sources'[k] = NoSource \/ sources'[k].stopped)
         /\ (sources[k].at # "none" /\ sources[k].stopped)
               => \/ sources'[k] = NoSource
                  \/ /\ sources'[k].stopped
                     /\ ~Rendering(k)']_vars

\* C16 witness: a source was stopped by its closure, and play() was called
\* on its controls since
C16_Witness ==
    \E k \in Slots :
      /\ sources[k].at = "running"
      /\ sources[k].stopped
      /\ playing[sources[k].controls]

\* C17: a closure run leaves the source (unless it ended) paused exactly
\* when playing() was false, and a source that is not stopped, with
\* controls that are not stopped, stays the same source, not stopped:
\* paused after pause(), resumed after play().
C17_PausedFollowsPlaying ==
    [][\A k \in Slots :
         PeriodicAccess(k) =>
           /\ sources'[k] # NoSource
                 => sources'[k].paused = ~playing[sources[k].controls]
           /\ (~sources[k].stopped /\ ~stopped[sources[k].controls])
                 => /\ sources'[k] # NoSource
                    /\ sources'[k].device = sources[k].device
                    /\ sources'[k].controls = sources[k].controls
                    /\ ~sources'[k].stopped]_vars

\* C17 witness: a source that a closure run paused, not stopped, whose
\* controls play() has set playing again: the next run resumes it
C17_Witness ==
    \E k \in Slots :
      /\ sources[k].at = "running"
      /\ sources[k].paused
      /\ ~sources[k].stopped
      /\ playing[sources[k].controls]
      /\ ~stopped[sources[k].controls]

\* C18: the factor a closure run sets is 0 when the device is muted and
\* else the gain of (controls volume + device volume), both as they are
\* at the run; any other step leaves the factor of a source as it was.
C18_FactorFollowsVolumes ==
    [][\A k \in Slots :
         /\ (PeriodicAccess(k) /\ sources'[k] # NoSource)
               => sources'[k].factor =
                    IF output_devices[sources[k].device].muted
                    THEN 0
                    ELSE Gain(volume[sources[k].controls]
                                + output_devices[sources[k].device].volume)
         /\ (Kept(k) /\ ~PeriodicAccess(k))
               => sources'[k].factor = sources[k].factor]_vars

\* C18 witness: a rendering source whose factor is the gain of the two
\* volumes, both set by set_volume, read by its last closure run, on a
\* device muted since
C18_Witness ==
    \E k \in Slots :
      /\ Rendering(k)
      /\ volume[sources[k].controls] = 1
      /\ output_devices[sources[k].device].volume = 1
      /\ sources[k].factor = Gain(2)
      /\ output_devices[sources[k].device].muted

\* the step changed a field of instance i, of device d, the source in k
ControlsChanged(i) ==
    <<playing[i], stopped[i], volume[i]>>'
       # <<playing[i], stopped[i], volume[i]>>
DeviceChanged(d) == output_devices'[d] # output_devices[d]
SourceChanged(k) == sources'[k] # sources[k]

OtherControlsKept(i) ==
    \A j \in Controls \ {i} :
      /\ playing'[j] = playing[j]
      /\ stopped'[j] = stopped[j]
      /\ volume'[j] = volume[j]

\* C21: play() sets playing to true and pause() sets it to false, and
\* neither changes stopped or volume; set_volume(v) stores v as it is and
\* changes nothing but volume; get_volume() returns the stored volume,
\* which only set_volume changes after the constructor set it.
C21_PlayPauseVolumeFrame ==
    [][\A t \in Threads : \A i \in Controls :
         /\ Play(t, i)
              => /\ playing'[i]
                 /\ stopped'[i] = stopped[i]
                 /\ volume'[i] = volume[i]
                 /\ OtherControlsKept(i)
         /\ Pause(t, i)
              => /\ ~playing'[i]
                 /\ stopped'[i] = stopped[i]
                 /\ volume'[i] = volume[i]
                 /\ OtherControlsKept(i)
         /\ \A v \in Volumes :
              SetVolume(t, i, v)
                => /\ volume'[i] = v
                   /\ playing'[i] = playing[i]
                   /\ stopped'[i] = stopped[i]
                   /\ OtherControlsKept(i)
         /\ GetVolume(t, i)
              => /\ gotVolume' = volume[i]
                 /\ UNCHANGED <<playing, stopped, volume>>
         /\ (Constructed(i) /\ volume'[i] # volume[i])
              => \E u \in Threads : \E v \in Volumes : SetVolume(u, i, v)
      ]_vars

\* C21 witness: get_volume() returned 1 from an instance, and set_volume
\* has since stored 2, above the range of the sliders, in every instance;
\* one of them is stopped and was set playing again by play()
C21_Witness ==
    /\ constructed = MaxControls
    /\ gotVolume = 1
    /\ \A i \in Controls : volume[i] = 2
    /\ \E i \in Controls : stopReturned[i] /\ stopped[i] /\ playing[i]

\* C22: as_event() is None for a record whose event type is not defined,
\* whose code is not defined within its type, or whose type is EV_PWR
\* (whatever the code); it is Some only when both lookups succeed, and then
\* as_event_type() of the record is Some too; process_event returns the
\* record in either case.
C22_ClassificationTotal ==
    event_wrapper.some =>
      /\ returned = event_wrapper
      /\ classified \in {None} \cup
           {Some([category |-> ty, code |-> c]) :
              ty \in {"EV_SYN", "EV_KEY", "EV_REL", "EV_ABS", "EV_MSC",
                      "EV_SW", "EV_LED", "EV_SND", "EV_REP", "EV_FF",
                      "EV_FF_STATUS"},
              c \in Codes}
      /\ ~AsEventType(event_wrapper.value).some => ~classified.some
      /\ (/\ AsEventType(event_wrapper.value).some
          /\ event_wrapper.value.code
               \notin DefinedCodes(AsEventType(event_wrapper.value).value))
           => ~classified.some
      /\ AsEventType(event_wrapper.value) = Some("EV_PWR") => ~classified.some
      /\ classified.some
           => /\ AsEventType(event_wrapper.value).some
              /\ classified.value.category
                   = AsEventType(event_wrapper.value).value
              /\ classified.value.code = event_wrapper.value.code
              /\ event_wrapper.value.code
                   \in DefinedCodes(classified.value.category)

\* C22 witness: process_event returned a power event, which as_event()
\* did not classify although its type is defined
C22_Witness ==
    /\ event_wrapper.some
    /\ AsEventType(event_wrapper.value) = Some("EV_PWR")
    /\ ~classified.some
    /\ returned = event_wrapper

\* the driver is inside stop() on instance i, between its two stores
BetweenStores(i) == tpc["driver"] = [at |-> "stop", on |-> i]

\* C23: a closure that began after stop() on its controls had returned
\* has stopped its Stoppable, which stays stopped as long as the source
\* lives; a closure that runs between the two stores of the first stop()
\* pauses and does not stop; and a closure that loads playing after stop()
\* has returned leaves its source paused or stopped.
C23_StopConverges ==
    /\ [](\A k \in Closures :
            closures[k].at # "none"
              => /\ closures[k].startedAfterStop => closures[k].stopped
                 /\ closures[k].pausedAfterStop
                      => closures[k].paused \/ closures[k].stopped)
    /\ [][\A k \in Closures :
            (closures[k].at # "none" /\ closures'[k].at # "none")
              => /\ closures[k].stopped => closures'[k].stopped
                 /\ (/\ BetweenStores(closures[k].controls)
                     /\ ~stopped[closures[k].controls]
                     /\ ClosureStopped(k))
                      => closures'[k].stopped = closures[k].stopped
                 /\ (/\ BetweenStores(closures[k].controls)
                     /\ ClosureSetPaused(k))
                      => closures'[k].paused]_vars

\* C23 witness: two closures share one AudioControls; stop() on it has
\* returned; one closure began between the two stores and loaded playing
\* after the return - it is paused and not stopped; the other began after
\* the return and is stopped
C23_Witness ==
    \E j \in Closures : \E k \in Closures :
      /\ closures[j].at # "none"
      /\ closures[k].at # "none"
      /\ closures[j].controls = closures[k].controls
      /\ closures[j].device # closures[k].device
      /\ stopReturned[closures[j].controls]
      /\ ~closures[j].startedAfterStop
      /\ closures[j].pausedAfterStop
      /\ closures[j].paused
      /\ ~closures[j].stopped
      /\ closures[k].startedAfterStop
      /\ closures[k].stopped

\* the audio thread is inside closure k
Running(k) == closures[k].at \notin {"none", "waiting"}

C25_EnabledIffStream ==
    \A d \in OutputDevices :
      /\ output_devices[d].enabled
           <=> (output_devices[d].stream /\ output_devices[d].stream_handle)
      /\ output_devices[d].stream <=> output_devices[d].stream_handle

\* C25 witness: the last play_sound got past the expect and returned true
\* on an enabled device that holds stream and handle, while the last
\* enable() of the other device failed and left it with neither
C25_Witness ==
    \E d \in OutputDevices : \E e \in OutputDevices :
      /\ lastPlaySound.returned
      /\ \E k \in Slots : On(k, d)
      /\ output_devices[d].enabled
      /\ output_devices[d].stream
      /\ output_devices[d].stream_handle
      /\ acquireFailed[e]
      /\ ~output_devices[e].enabled
      /\ ~output_devices[e].stream
      /\ ~output_devices[e].stream_handle

\* C26: the assertion of the settings window never fails, and while the
\* program runs every device of the map has its name in config.outputs
\* exactly when it is enabled.
C26_CheckedWasNotConfigured ==
    /\ soundboard.panic # "assert"
    /\ Running_
         => \A d \in device_keys :
              d \in config_outputs <=> output_devices[d].enabled

\* C27: whenever the driver can dispatch a key release every name in
\* config.outputs is a key of output_devices, and the lookup of the mute
\* shortcut never panics.
C27_ConfiguredAreDevices ==
    /\ soundboard.panic # "index"
    /\ Drawn => config_outputs \subseteq device_keys

\* C28: audio_controls and config.sounds have the same length, the sounds
\* of config.sounds are distinct and audio_controls[i] is an instance that
\* was constructed for config.sounds[i], so that the add, remove and move
\* of update() moved both lists alike and no index of update() is out of
\* bounds.
C28_ControlsFollowSounds ==
    /\ soundboard.panic # "bounds"
    /\ Len(audio_controls) = Len(config_sounds)
    /\ \A i \in 1 .. Len(config_sounds) :
         /\ i <= Len(audio_controls)
         /\ Constructed(audio_controls[i])
         /\ made_for[audio_controls[i]] = config_sounds[i]
         /\ \A j \in 1 .. Len(config_sounds) :
              config_sounds[i] = config_sounds[j] => i = j

\* C28 witness: two sounds were added, each at index 0, and then moved:
\* the first one is at the first index again, its controls with it; none
\* was ever stopped, as the ones of the loaded sounds are
C28_Witness ==
    /\ Running_
    /\ config_sounds = <<1, 2>>
    /\ audio_controls = <<1, 2>>
    /\ \A i \in Controls : i <= 2 => ~stopped[i]

\* C29: when no call is in progress, a stopped AudioControls is not
\* playing.
C29_StoppedNeverPlaying ==
    \A i \in Controls :
      (Constructed(i) /\ tpc["driver"] = Idle /\ stopped[i]) => ~playing[i]

\* C29 as amended: stop() leaves the instance stopped and not playing,
\* and a stopped instance is playing only because the driver set playing
\* on it when it was stopped already, by the modifier toggle or the pause
\* shortcut.
C29_StoppedPlayingOnlyBySetPlaying ==
    [][\A i \in Controls :
         /\ (Constructed(i) /\ ~stopped[i] /\ stopped'[i]) => ~playing'[i]
         /\ (Constructed(i) /\ stopped'[i] /\ playing'[i]
               /\ ~(stopped[i] /\ playing[i]))
              => /\ stopped[i]
                 /\ ~playing[i]
                 /\ i \in Listed
                 /\ \/ soundboard.modified /\ ~soundboard'.modified
                    \/ ~soundboard.playing /\ soundboard'.playing]_vars

\* C29 witness: the sound was triggered and its controls stopped by the
\* stop shortcut, then the pause shortcut set it playing: it is stopped
\* and playing
C29_Witness ==
    \E i \in 1 .. Len(audio_controls) :
      /\ Running_
      /\ soundboard.playing
      /\ made_for[audio_controls[i]] = config_sounds[i]
      /\ audio_controls[i] # config_sounds[i]
      /\ stopReturned[audio_controls[i]]
      /\ stopped[audio_controls[i]]
      /\ playing[audio_controls[i]]

\* C30: the channel of a session whose receiver the manager does not
\* hold any more buffers nothing; what events() returned from the channel
\* of a session, and what that channel buffers, was decoded by the worker
\* of that session; connect() starts a session with an empty channel, and
\* events() returns from the channel of the latest connect() only.
C30_SessionsIsolated ==
    /\ [](\A s \in Sessions :
            /\ s # event_receiver => chan[s] = <<>>
            /\ IsPrefix(delivered[s] \o chan[s], decoded[s]))
    /\ [][/\ sessions' # sessions
               => /\ event_receiver' = sessions'
                  /\ chan'[sessions'] = <<>>
                  /\ delivered' = delivered
          /\ \A s \in Sessions :
               delivered'[s] # delivered[s]
                 => /\ s = event_receiver
                    /\ s = sessions
                    /\ delivered'[s] = delivered[s] \o chan[s]]_vars

\* C30 witness: the worker of the first session decoded a record that was
\* buffered and never returned; the driver connected again; events() has
\* since returned a record of the second session, and the channel of the
\* first one is empty
C30_Witness ==
    /\ sessions = 2
    /\ event_receiver = 2
    /\ decoded[1] # <<>>
    /\ delivered[1] = <<>>
    /\ chan[1] = <<>>
    /\ delivered[2] # <<>>
    /\ lastCall # "disconnect"


\* a pipeline that is not halted: the mixer of a device holds the source
\* and its Stoppable has not been stopped
NotHalted(k) == sources[k].at # "none" /\ ~sources[k].stopped

\* C31: while the driver runs, the AudioControls of every pipeline that
\* is not halted is in audio_controls or has had stop() called on it.
C31_AudibleUnderControl ==
    Running_
      => \A k \in Slots :
           NotHalted(k)
             => \/ sources[k].controls \in Listed
                \/ stopReturned[sources[k].controls]

====
